---- MODULE Spec2Model ----
(***************************************************************************)
(* Model of the KEP classify -> extract pipeline: the robust JSON          *)
(* extractor (utils/utility.py), the prompt builder (prompter/) and the    *)
(* two LLM stages (extractor/classifier.py, extractor/structurer.py).      *)
(*                                                                         *)
(* Texts are sequences of one-character strings, so that every scan,       *)
(* regular expression and JSON conversion is computed character by         *)
(* character as the code computes it.  The characters U+201C and U+201D    *)
(* are written "ldquo" and "rdquo", the grave accent U+0060 "backtick".    *)
(***************************************************************************)
EXTENDS Integers, Sequences, FiniteSets, TLC

VARIABLES
    clf,        \* the Classifier instance and the frame of its predict() call
    ks,         \* the Structurer instance and the frame of its predict() call
    jx,         \* a call of extract_json_from_response and its json.dumps round trip
    pr,         \* a Prompter construction and build() call
    pipe,       \* an ExtractorPipeline and the frame of its run() call
    script,     \* the module body of run_pipeline.py, from line 136 on
    chunker     \* a Chunker and the frame of its split() call

vars == <<clf, ks, jx, pr, pipe, script, chunker>>

(***************************************************************************)
(* Bounds of the model.                                                    *)
(***************************************************************************)
MaxItems == 2       \* longest dataset handed to a stage
MaxTokens == 2      \* longest raw text, in fragments, handed to the extractor
MaxPieces == 5      \* longest text, in words and gaps, handed to the chunker
MaxSize == 3        \* largest chunk size and overlap, in words

(***************************************************************************)
(* Generic helpers on texts.                                               *)
(***************************************************************************)
Min(S) == CHOOSE x \in S : \A y \in S : x <= y
Max(S) == CHOOSE x \in S : \A y \in S : x >= y

\* the indices 1..n that satisfy Keep, in increasing order
SelectIndices(n, Keep(_)) == SelectSeq([i \in 1..n |-> i], Keep)

\* the concatenation of a sequence of texts
RECURSIVE Flatten(_)
Flatten(ss) ==
    IF ss = << >> THEN << >>
    ELSE IF Len(ss) = 1 THEN ss[1]
    ELSE LET h == Len(ss) \div 2 IN
         Flatten(SubSeq(ss, 1, h)) \o Flatten(SubSeq(ss, h + 1, Len(ss)))

\* sep.join(ss)
Join(sep, ss) ==
    Flatten([i \in 1..Len(ss) |-> IF i = 1 THEN ss[i] ELSE sep \o ss[i]])

\* s[i..] starts with p
StartsWithAt(s, i, p) ==
    /\ i + Len(p) - 1 <= Len(s)
    /\ \A k \in 1..Len(p) : s[i + k - 1] = p[k]

\* str.count(c)
Count(s, c) == Cardinality({i \in 1..Len(s) : s[i] = c})

Contains(s, c) == \E i \in 1..Len(s) : s[i] = c

\* the characters Python's \s and str.strip() treat as white space
PyWhitespace == {" ", "\t", "\n", "\r", "\f"}

\* the first index from i on whose character is not in cls (Len(s) + 1 if none)
SkipOver(s, i, cls) ==
    IF i > Len(s) THEN i
    ELSE Min({j \in i..(Len(s) + 1) : j = Len(s) + 1 \/ s[j] \notin cls})

LStrip(s) == SubSeq(s, SkipOver(s, 1, PyWhitespace), Len(s))

RStrip(s) ==
    LET keep == {i \in 1..Len(s) : s[i] \notin PyWhitespace} IN
    IF keep = {} THEN << >> ELSE SubSeq(s, 1, Max(keep))

Strip(s) == LStrip(RStrip(s))

Lower(s) ==
    LET LowerChar(c) ==
        CASE c = "A" -> "a" [] c = "B" -> "b" [] c = "C" -> "c" [] c = "D" -> "d"
          [] c = "E" -> "e" [] c = "F" -> "f" [] c = "G" -> "g" [] c = "H" -> "h"
          [] c = "I" -> "i" [] c = "J" -> "j" [] c = "K" -> "k" [] c = "L" -> "l"
          [] c = "M" -> "m" [] c = "N" -> "n" [] c = "O" -> "o" [] c = "P" -> "p"
          [] c = "Q" -> "q" [] c = "R" -> "r" [] c = "S" -> "s" [] c = "T" -> "t"
          [] c = "U" -> "u" [] c = "V" -> "v" [] c = "W" -> "w" [] c = "X" -> "x"
          [] c = "Y" -> "y" [] c = "Z" -> "z"
          [] OTHER -> c
    IN [i \in 1..Len(s) |-> LowerChar(s[i])]

(***************************************************************************)
(* JSON values.  Every value is a record of one shape: t is the type, s    *)
(* the text of a string or the digits of a number, kv the members of an    *)
(* object (key k, value v, in insertion order) or the elements of an       *)
(* array (k empty).                                                        *)
(***************************************************************************)
JNull == [t |-> "null", s |-> << >>, kv |-> << >>]
JStr(s) == [t |-> "str", s |-> s, kv |-> << >>]
JNum(s) == [t |-> "num", s |-> s, kv |-> << >>]
JArr(elems) == [t |-> "arr", s |-> << >>,
                kv |-> [i \in 1..Len(elems) |-> [k |-> << >>, v |-> elems[i]]]]
JObj(kv) == [t |-> "obj", s |-> << >>, kv |-> kv]

HasKey(o, k) == \E i \in 1..Len(o.kv) : o.kv[i].k = k

\* dict.get(k): the member's value, or None (JNull) when the key is absent
Get(o, k) ==
    IF HasKey(o, k)
    THEN o.kv[CHOOSE i \in 1..Len(o.kv) : o.kv[i].k = k].v
    ELSE JNull

\* d[k] = v on a Python dict: a present key keeps its place, a new one is appended
SetKey(kv, k, v) ==
    IF \E i \in 1..Len(kv) : kv[i].k = k
    THEN [i \in 1..Len(kv) |-> IF kv[i].k = k THEN [k |-> k, v |-> v] ELSE kv[i]]
    ELSE Append(kv, [k |-> k, v |-> v])

\* Python's == on parsed JSON: objects compare as mappings, whatever the order
RECURSIVE JsonEq(_, _)
JsonEq(a, b) ==
    /\ a.t = b.t
    /\ a.s = b.s
    /\ Len(a.kv) = Len(b.kv)
    /\ IF a.t = "obj"
       THEN \A i \in 1..Len(a.kv) :
                /\ HasKey(b, a.kv[i].k)
                /\ JsonEq(a.kv[i].v, Get(b, a.kv[i].k))
       ELSE \A i \in 1..Len(a.kv) : JsonEq(a.kv[i].v, b.kv[i].v)

\* Python truthiness of a parsed JSON value (numbers of the model are integers)
Truthy(v) ==
    CASE v.t = "null" -> FALSE
      [] v.t = "false" -> FALSE
      [] v.t = "true" -> TRUE
      [] v.t = "str" -> v.s # << >>
      [] v.t = "num" -> v.s # <<"0">>
      [] OTHER -> v.kv # << >>

(***************************************************************************)
(* json.loads, on the JSON that the texts of the model can hold: objects,  *)
(* arrays, strings with the two-character escapes, integers and the        *)
(* literals null, true, false.  A parse returns ok, the value v and the    *)
(* index i after it.  The texts of the model hold no '.', no exponent and  *)
(* no NaN or Infinity.                                                     *)
(***************************************************************************)
Digits == {"0", "1", "2", "3", "4", "5", "6", "7", "8", "9"}
JFail == [ok |-> FALSE, v |-> JNull, i |-> 0]
JOk(v, i) == [ok |-> TRUE, v |-> v, i |-> i]

SkipWs(s, i) == SkipOver(s, i, {" ", "\t", "\n", "\r"})

\* the number of backslashes that end just before index k, counted from index i on
BackslashRun(s, i, k) ==
    (k - 1) - Max({i - 1} \cup {x \in i..(k - 1) : s[x] # "\\"})

\* py_scanstring, strict: i is the index after the opening quote.  The string ends
\* at the first quote that no backslash escapes; a backslash that is not itself
\* escaped starts an escape, which must be one the decoder knows
ScanString(s, i, acc) ==
    LET closing == {j \in i..Len(s) : s[j] = "\"" /\ BackslashRun(s, i, j) % 2 = 0}
        j == Min(closing)
        EscStart(k) == s[k] = "\\" /\ BackslashRun(s, i, k) % 2 = 0
        Escaped(k) == k > i /\ EscStart(k - 1)
        Unicode(k) == EscStart(k) /\ s[k + 1] = "u"
        Unescape(c) ==
            CASE c = "n" -> "\n" [] c = "t" -> "\t" [] c = "r" -> "\r" [] c = "f" -> "\f"
              [] OTHER -> c
        InUnicode(k) == \E u \in (k - 5)..(k - 2) : u >= i /\ Unicode(u)
        valid == \A k \in i..(j - 1) :
                    /\ s[k] \notin {"\n", "\t", "\r", "\f"}
                    /\ EscStart(k) =>
                          \/ s[k + 1] \in {"\"", "\\", "/", "n", "t", "r", "f"}
                          \/ StartsWithAt(s, k + 1, <<"u", "2", "0", "1", "c">>) /\ k + 5 < j
                          \/ StartsWithAt(s, k + 1, <<"u", "2", "0", "1", "d">>) /\ k + 5 < j
        keep == SelectSeq([k \in 1..(j - i) |-> i + k - 1],
                          LAMBDA k : ~EscStart(k) /\ ~InUnicode(k))
        Decoded(k) ==
            IF Escaped(k)
            THEN (IF s[k] = "u" THEN (IF s[k + 4] = "c" THEN "ldquo" ELSE "rdquo")
                  ELSE Unescape(s[k]))
            ELSE s[k]
    IN IF closing = {} \/ ~valid THEN JFail
       ELSE JOk(JStr(acc \o [k \in 1..Len(keep) |-> Decoded(keep[k])]), j + 1)

\* NUMBER_RE, integer part: -?(0|[1-9][0-9]*)
ScanNumber(s, i) ==
    LET j == IF s[i] = "-" THEN i + 1 ELSE i IN
    IF j > Len(s) \/ s[j] \notin Digits THEN JFail
    ELSE IF s[j] = "0" THEN JOk(JNum(<<"0">>), j + 1)
    ELSE JOk(JNum(SubSeq(s, i, SkipOver(s, j, Digits) - 1)), SkipOver(s, j, Digits))

RECURSIVE ScanOnce(_, _)
RECURSIVE ScanMembers(_, _, _)
RECURSIVE ScanElements(_, _, _)

\* JSONObject: i is the index after '{'
ScanObject(s, i) ==
    LET j == SkipWs(s, i) IN
    IF j > Len(s) THEN JFail
    ELSE IF s[j] = "}" THEN JOk(JObj(<< >>), j + 1)
    ELSE IF s[j] # "\"" THEN JFail
    ELSE ScanMembers(s, j, << >>)

\* after a pair: '}' ends the object, ',' must be followed by the next key
NextMember(s, d, pairs) ==
    IF d > Len(s) THEN JFail
    ELSE IF s[d] = "}" THEN JOk(JObj(pairs), d + 1)
    ELSE IF s[d] # "," THEN JFail
    ELSE IF SkipWs(s, d + 1) > Len(s) \/ s[SkipWs(s, d + 1)] # "\"" THEN JFail
    ELSE ScanMembers(s, SkipWs(s, d + 1), pairs)

\* the value of a pair has been scanned: pairs[key] = value
AfterValue(s, key, val, acc) ==
    IF ~val.ok THEN JFail
    ELSE NextMember(s, SkipWs(s, val.i), SetKey(acc, key, val.v))

\* the key of a pair has been scanned: ':' and the value follow
AfterKey(s, key, acc) ==
    IF ~key.ok THEN JFail
    ELSE IF SkipWs(s, key.i) > Len(s) \/ s[SkipWs(s, key.i)] # ":" THEN JFail
    ELSE AfterValue(s, key.v.s, ScanOnce(s, SkipWs(s, SkipWs(s, key.i) + 1)), acc)

\* one "key": value pair and what follows it; s[i] is the key's opening quote
ScanMembers(s, i, acc) == AfterKey(s, ScanString(s, i + 1, << >>), acc)

\* JSONArray: i is the index after '['
ScanArray(s, i) ==
    LET j == SkipWs(s, i) IN
    IF j > Len(s) THEN JFail
    ELSE IF s[j] = "]" THEN JOk(JArr(<< >>), j + 1)
    ELSE ScanElements(s, j, << >>)

\* after an element: ']' ends the array, ',' must be followed by a value
NextElement(s, d, elems) ==
    IF d > Len(s) THEN JFail
    ELSE IF s[d] = "]" THEN JOk(JArr(elems), d + 1)
    ELSE IF s[d] # "," THEN JFail
    ELSE ScanElements(s, SkipWs(s, d + 1), elems)

AfterElement(s, val, acc) ==
    IF ~val.ok THEN JFail
    ELSE NextElement(s, SkipWs(s, val.i), Append(acc, val.v))

ScanElements(s, i, acc) == AfterElement(s, ScanOnce(s, i), acc)

\* scanner.py_make_scanner _scan_once
ScanOnce(s, i) ==
    IF i > Len(s) THEN JFail
    ELSE IF s[i] = "\"" THEN ScanString(s, i + 1, << >>)
    ELSE IF s[i] = "{" THEN ScanObject(s, i + 1)
    ELSE IF s[i] = "[" THEN ScanArray(s, i + 1)
    ELSE IF StartsWithAt(s, i, <<"n", "u", "l", "l">>) THEN JOk(JNull, i + 4)
    ELSE IF StartsWithAt(s, i, <<"t", "r", "u", "e">>) THEN JOk([t |-> "true", s |-> << >>, kv |-> << >>], i + 4)
    ELSE IF StartsWithAt(s, i, <<"f", "a", "l", "s", "e">>) THEN JOk([t |-> "false", s |-> << >>, kv |-> << >>], i + 5)
    ELSE IF s[i] \in Digits \cup {"-"} THEN ScanNumber(s, i)
    ELSE JFail

\* json.loads: ok is FALSE where Python raises JSONDecodeError; nothing but
\* white space may follow the value
Loads(s) ==
    LET decode(r) == IF r.ok /\ SkipWs(s, r.i) = Len(s) + 1 THEN r ELSE JFail
    IN decode(ScanOnce(s, SkipWs(s, 1)))

(***************************************************************************)
(* json.dumps with the default separators and ensure_ascii.                *)
(***************************************************************************)
EscapeChar(c) ==
    CASE c = "\"" -> <<"\\", "\"">>
      [] c = "\\" -> <<"\\", "\\">>
      [] c = "\n" -> <<"\\", "n">>
      [] c = "\t" -> <<"\\", "t">>
      [] c = "\r" -> <<"\\", "r">>
      [] c = "\f" -> <<"\\", "f">>
      [] c = "ldquo" -> <<"\\">> \o <<"u", "2", "0", "1", "c">>
      [] c = "rdquo" -> <<"\\">> \o <<"u", "2", "0", "1", "d">>
      [] OTHER -> <<c>>

EncodeString(s) ==
    <<"\"">> \o Flatten([i \in 1..Len(s) |-> EscapeChar(s[i])]) \o <<"\"">>

RECURSIVE Dumps(_)
Dumps(v) ==
    CASE v.t = "null" -> <<"n", "u", "l", "l">>
      [] v.t = "true" -> <<"t", "r", "u", "e">>
      [] v.t = "false" -> <<"f", "a", "l", "s", "e">>
      [] v.t = "num" -> v.s
      [] v.t = "str" -> EncodeString(v.s)
      [] v.t = "arr" ->
            <<"[">> \o Join(<<",", " ">>, [i \in 1..Len(v.kv) |-> Dumps(v.kv[i].v)])
                    \o <<"]">>
      [] OTHER ->
            <<"{">> \o Join(<<",", " ">>,
                            [i \in 1..Len(v.kv) |->
                                EncodeString(v.kv[i].k) \o <<":", " ">>
                                    \o Dumps(v.kv[i].v)])
                    \o <<"}">>

(***************************************************************************)
(* The repair steps of utils/utility.py.                                   *)
(***************************************************************************)
\* re.sub(r'[cls]+', ' ', s): every maximal run of cls becomes one space
SubRuns(s, cls) ==
    LET keep == SelectIndices(Len(s),
                    LAMBDA i : s[i] \notin cls \/ i = 1 \/ s[i - 1] \notin cls)
    IN [k \in 1..Len(keep) |-> IF s[keep[k]] \in cls THEN " " ELSE s[keep[k]]]

\* str.splitlines(): a line ends at "\n", "\r", "\r\n" or "\f"; no empty last line
SplitLines(s) ==
    LET IsBreak(i) == \/ s[i] \in {"\n", "\f"}
                      \/ s[i] = "\r" /\ ~(i < Len(s) /\ s[i + 1] = "\n")
        breaks == SelectIndices(Len(s), IsBreak)
        From(k) == IF k = 1 THEN 1 ELSE breaks[k - 1] + 1
        To(k) == IF breaks[k] > 1 /\ s[breaks[k]] = "\n" /\ s[breaks[k] - 1] = "\r"
                 THEN breaks[k] - 2 ELSE breaks[k] - 1
        ended == [k \in 1..Len(breaks) |-> SubSeq(s, From(k), To(k))]
        rest == SubSeq(s, From(Len(breaks) + 1), Len(s))
    IN IF rest = << >> THEN ended ELSE Append(ended, rest)

\* the loop of fix_missing_commas_between_keys from line i on
RECURSIVE FixLines(_, _, _)
FixLines(lines, i, fixed_lines) ==
    IF i > Len(lines) THEN fixed_lines
    ELSE LET line == lines[i]
             startsKey == i > 1 /\ LStrip(line) # << >> /\ Head(LStrip(line)) = "\""
             hasPrev == \E j \in 1..(i - 1) : Strip(lines[j]) # << >>
             last == fixed_lines[Len(fixed_lines)]
             needsComma == RStrip(last) = << >> \/ RStrip(last)[Len(RStrip(last))] # ","
             fixed == IF startsKey /\ hasPrev /\ needsComma
                      THEN [fixed_lines EXCEPT ![Len(fixed_lines)] = RStrip(last) \o <<",">>]
                      ELSE fixed_lines
         IN FixLines(lines, i + 1, Append(fixed, line))

fix_missing_commas_between_keys(s) ==
    Join(<<"\n">>, FixLines(SplitLines(s), 1, << >>))

\* re.sub(r',\s*([\}\]])', r'\1', s): a comma that white space and a closing
\* bracket follow goes, with that white space
clean_trailing_commas(s) ==
    LET Trailing(i) == /\ s[i] = ","
                       /\ SkipOver(s, i + 1, PyWhitespace) <= Len(s)
                       /\ s[SkipOver(s, i + 1, PyWhitespace)] \in {"}", "]"}
        Dropped(j) == \/ Trailing(j)
                      \/ /\ s[j] \in PyWhitespace
                         /\ \E i \in 1..(j - 1) :
                               Trailing(i) /\ \A k \in (i + 1)..j : s[k] \in PyWhitespace
        keep == SelectIndices(Len(s), LAMBDA j : ~Dropped(j))
    IN [k \in 1..Len(keep) |-> s[keep[k]]]

fix_missing_braces(s) ==
    LET open_braces == Count(s, "{")
        close_braces == Count(s, "}")
    IN IF open_braces > close_braces
       THEN s \o [i \in 1..(open_braces - close_braces) |-> "}"]
       ELSE s

\* the six repair steps every candidate block goes through before json.loads
Clean(s) ==
    LET ReplaceSmartQuotes(t) ==
            [i \in 1..Len(t) |-> IF t[i] \in {"ldquo", "rdquo"} THEN "\"" ELSE t[i]]
    IN fix_missing_braces(
           clean_trailing_commas(
               fix_missing_commas_between_keys(
                   ReplaceSmartQuotes(
                       SubRuns(SubRuns(s, {"\n", "\r", "\t"}), PyWhitespace)))))

(***************************************************************************)
(* extract_json_from_response.                                             *)
(***************************************************************************)
Fence == <<"backtick", "backtick", "backtick">>

\* a match of markdown_pattern whose brace-delimited group starts at b: the group
\* is the shortest one that white space and a fence follow.  Returns ok, the
\* bounds b..e of the group and the index after the match
MarkdownGroup(s, p, b, ends) ==
    IF b <= Len(s) /\ s[b] = "{" /\ ends # {}
    THEN [ok |-> TRUE, b |-> b, e |-> Min(ends), next |-> SkipOver(s, Min(ends) + 1, PyWhitespace) + 3]
    ELSE [ok |-> FALSE, b |-> 0, e |-> 0, next |-> p + 1]

\* one match of markdown_pattern at the fence at p: a fence, an optional json
\* tag, white space, the group
MarkdownMatchAt(s, p) ==
    LET From(b) == MarkdownGroup(s, p, b,
                       {e \in (b + 1)..Len(s) :
                           s[e] = "}" /\ StartsWithAt(s, SkipOver(s, e + 1, PyWhitespace), Fence)})
    IN
    From(SkipOver(s, IF StartsWithAt(s, p + 3, <<"j", "s", "o", "n">>) THEN p + 7 ELSE p + 3, PyWhitespace))

\* re.findall of markdown_pattern in response_text, from index p on: the scan
\* moves to the next fence, and past a match when there is one
RECURSIVE MarkdownMatches(_, _)
MarkdownFound(s, p, m) ==
    IF m.ok THEN <<SubSeq(s, m.b, m.e)>> \o MarkdownMatches(s, m.next)
    ELSE MarkdownMatches(s, p + 1)

MarkdownNext(s, fences) ==
    IF fences = {} THEN << >>
    ELSE MarkdownFound(s, Min(fences), MarkdownMatchAt(s, Min(fences)))

MarkdownMatches(s, p) ==
    MarkdownNext(s, {q \in p..Len(s) : StartsWithAt(s, q, Fence)})

\* try: json_blocks.append(json.loads(cleaned)) except JSONDecodeError: continue
Parsed(r) == IF r.ok THEN <<r.v>> ELSE << >>

\* the loop over markdown_matches: the blocks that parse, in order
MarkdownBlocks(matches) ==
    Flatten([n \in 1..Len(matches) |-> Parsed(Loads(Clean(Strip(matches[n]))))])

\* a closing brace has brought brace_count to 0: the candidate block is parsed,
\* and kept when it parses; json_start is reset only then
CloseBlock(r, json_start, json_blocks) ==
    [brace_count |-> 0,
     json_start |-> IF r.ok THEN 0 ELSE json_start,
     json_blocks |-> json_blocks \o Parsed(r)]

\* one turn of the brace-counting loop at a brace s[i]; json_start = 0 stands
\* for None
BraceStep(s, i, st) ==
    IF s[i] = "{"
    THEN [st EXCEPT !.brace_count = @ + 1,
                    !.json_start = IF st.brace_count = 0 THEN i ELSE @]
    ELSE IF st.brace_count - 1 = 0 /\ st.json_start # 0
    THEN CloseBlock(Loads(Clean(SubSeq(s, st.json_start, i))), st.json_start,
                    st.json_blocks)
    ELSE [st EXCEPT !.brace_count = @ - 1]

\* the brace-counting loop: braces holds the indices of the '{' and '}' of s (the
\* loop does nothing at another character), n the next one to visit
RECURSIVE BraceScan(_, _, _, _)
BraceScan(s, braces, n, st) ==
    IF n > Len(braces) THEN st.json_blocks
    ELSE BraceScan(s, braces, n + 1, BraceStep(s, braces[n], st))

BraceBlocks(s) ==
    BraceScan(s, SelectIndices(Len(s), LAMBDA i : s[i] \in {"{", "}"}), 1,
              [brace_count |-> 0, json_start |-> 0, json_blocks |-> << >>])

\* merged = {}; for block in json_blocks: merged.update(block)
RECURSIVE UpdateAll(_, _)
UpdateAll(kv, members) ==
    IF members = << >> THEN kv
    ELSE UpdateAll(SetKey(kv, Head(members).k, Head(members).v), Tail(members))

\* a key keeps the value of the first block that has it
MergeBlocks_first_wins(merged, blocks) ==
    LET all == Flatten([n \in 1..Len(blocks) |-> blocks[n].kv])
        first == SelectIndices(Len(all),
                     LAMBDA m : \A e \in 1..(m - 1) : all[e].k # all[m].k)
    IN JObj(merged \o [n \in 1..Len(first) |-> all[first[n]]])

RECURSIVE MergeBlocks(_, _)
MergeBlocks(merged, blocks) ==
    IF blocks = << >> THEN JObj(merged)
    ELSE MergeBlocks(UpdateAll(merged, Head(blocks).kv), Tail(blocks))

NoValidJson ==
    JObj(<<[k |-> <<"e", "r", "r", "o", "r">>, v |-> JStr(<<"N", "o", " ", "v", "a", "l", "i", "d", " ", "J", "S", "O", "N", " ", "f", "o", "u", "n", "d">>)]>>)

\* tiers 1 and 2: the blocks collected before the "if json_blocks:" test; the
\* brace scan runs only when the pattern matched nowhere
TierBlocks(response_text, markdown_matches) ==
    IF markdown_matches # << >>
    THEN MarkdownBlocks(markdown_matches)
    ELSE BraceBlocks(response_text)

JsonBlocks(response_text) == TierBlocks(response_text, MarkdownMatches(response_text, 1))

\* tier 3 gives None where the candidate does not parse
Wrapped_none(cleaned_response, candidate) ==
    IF (cleaned_response = << >> \/ Head(cleaned_response) # "{")
       /\ Contains(cleaned_response, ":") /\ candidate.ok
    THEN candidate.v
    ELSE JNull

\* tier 3: wrap the whole text in braces
Wrapped(cleaned_response, candidate) ==
    IF (cleaned_response = << >> \/ Head(cleaned_response) # "{")
       /\ Contains(cleaned_response, ":") /\ candidate.ok
    THEN candidate.v
    ELSE NoValidJson

\* several blocks are returned as a list
Combine_list(response_text, json_blocks) ==
    IF json_blocks # << >>
    THEN IF Len(json_blocks) = 1 THEN json_blocks[1] ELSE JArr(json_blocks)
    ELSE Wrapped(Strip(response_text),
                 Loads(Clean(<<"{">> \o Strip(response_text) \o <<"}">>)))

\* lines 223-248: one block is returned as it is, several objects are merged,
\* several blocks that are not all objects are returned as a list
Combine(response_text, json_blocks) ==
    IF json_blocks # << >>
    THEN IF Len(json_blocks) = 1 THEN json_blocks[1]
         ELSE IF \A i \in 1..Len(json_blocks) : json_blocks[i].t = "obj"
         THEN MergeBlocks(<< >>, json_blocks)
         ELSE JArr(json_blocks)
    ELSE Wrapped(Strip(response_text),
                 Loads(Clean(<<"{">> \o Strip(response_text) \o <<"}">>)))

extract_json_from_response(response_text) ==
    Combine(response_text, JsonBlocks(response_text))

(***************************************************************************)
(* json.dumps(value, indent=2), as the prompt builder prints schemas and   *)
(* examples: level is the nesting depth, ascii the ensure_ascii flag.       *)
(***************************************************************************)
Indent(level) == [i \in 1..(2 * level) |-> " "]

RECURSIVE DumpsIndent(_, _, _)
DumpsIndent(v, level, ascii) ==
    LET EncodeStringRaw(s) ==
            <<"\"">> \o Flatten([i \in 1..Len(s) |->
                                    IF s[i] \in {"ldquo", "rdquo"} THEN <<s[i]>>
                                    ELSE EscapeChar(s[i])])
                     \o <<"\"">>
        Str(s) == IF ascii THEN EncodeString(s) ELSE EncodeStringRaw(s)
        sep == <<",", "\n">> \o Indent(level + 1)
        open == <<"\n">> \o Indent(level + 1)
        close == <<"\n">> \o Indent(level)
    IN CASE v.t = "null" -> <<"n", "u", "l", "l">>
         [] v.t = "true" -> <<"t", "r", "u", "e">>
         [] v.t = "false" -> <<"f", "a", "l", "s", "e">>
         [] v.t = "num" -> v.s
         [] v.t = "str" -> Str(v.s)
         [] v.t = "arr" ->
               IF v.kv = << >> THEN <<"[", "]">>
               ELSE <<"[">> \o open
                    \o Join(sep, [i \in 1..Len(v.kv) |->
                                    DumpsIndent(v.kv[i].v, level + 1, ascii)])
                    \o close \o <<"]">>
         [] OTHER ->
               IF v.kv = << >> THEN <<"{", "}">>
               ELSE <<"{">> \o open
                    \o Join(sep, [i \in 1..Len(v.kv) |->
                                    Str(v.kv[i].k) \o <<":", " ">>
                                        \o DumpsIndent(v.kv[i].v, level + 1, ascii)])
                    \o close \o <<"}">>

(***************************************************************************)
(* The prompt builder: prompter/prompter.py and prompter/strategies/.      *)
(* A schema, like every Python value the builder handles, is a JSON value. *)
(***************************************************************************)
PERSONA == <<"P", "E", "R", "S", "O", "N", "A">>
TASK == <<"T", "A", "S", "K">>
INSTRUCTIONS == <<"I", "N", "S", "T", "R", "U", "C", "T", "I", "O", "N", "S">>
SCHEMAS == <<"S", "C", "H", "E", "M", "A", "S">>
EXAMPLE == <<"E", "X", "A", "M", "P", "L", "E">>
EXAMPLES == <<"E", "X", "A", "M", "P", "L", "E", "S">>
PROMPT == <<"P", "R", "O", "M", "P", "T">>

\* dict.get(k, default)
GetOr(o, k, default) == IF HasKey(o, k) THEN Get(o, k) ELSE default

\* a or b
Or(a, b) == IF Truthy(a) THEN a ELSE b

\* "\n".join(value): of the strings of a list, or of the characters of a string
JoinLines(value) ==
    IF value.t = "str"
    THEN Join(<<"\n">>, [i \in 1..Len(value.s) |-> <<value.s[i]>>])
    ELSE Join(<<"\n">>, [i \in 1..Len(value.kv) |-> value.kv[i].v.s])

\* str(value); the schemas of the model give PERSONA, TASK and PROMPT as strings
PyStr(v) ==
    CASE v.t = "str" -> v.s
      [] v.t = "num" -> v.s
      [] v.t = "true" -> <<"T", "r", "u", "e">>
      [] v.t = "false" -> <<"F", "a", "l", "s", "e">>
      [] v.t = "null" -> <<"N", "o", "n", "e">>
      [] OTHER -> Dumps(v)

\* the strategy registry of strategies/base.py, keyed by lower-cased name
_REGISTRY == {<<"z", "e", "r", "o">>, <<"f", "e", "w">>, <<"r", "a", "w">>}

\* ZeroShot.placeholder_values: EXAMPLE intentionally omitted
ZeroShot_placeholder_values(ph) ==
    JObj(<<[k |-> PERSONA, v |-> GetOr(ph, PERSONA, JStr(<< >>))],
           [k |-> TASK, v |-> GetOr(ph, TASK, JStr(<< >>))],
           [k |-> INSTRUCTIONS, v |-> GetOr(ph, INSTRUCTIONS, JArr(<< >>))],
           [k |-> SCHEMAS, v |-> GetOr(ph, SCHEMAS, JObj(<< >>))]>>)

\* no examples found counts as an empty list of examples
_select_examples_lenient(ph) ==
    Or(Get(ph, EXAMPLES),
       Or(Get(ph, Lower(EXAMPLES)),
          Or(Get(ph, EXAMPLE),
             Or(Get(ph, Lower(EXAMPLE)), JArr(<< >>)))))

\* the singular keys are looked up before the plural ones
_select_examples_singular_first(ph) ==
    LET inside == Or(Get(ph, EXAMPLE),
                     Or(Get(ph, Lower(EXAMPLE)),
                        Or(Get(ph, EXAMPLES),
                           Or(Get(ph, Lower(EXAMPLES)), JArr(<< >>)))))
    IN IF Truthy(inside) THEN inside ELSE JNull

\* FewShot._select_examples: the examples found, or JNull where it raises ValueError
_select_examples(ph) ==
    LET inside == Or(Get(ph, EXAMPLES),
                     Or(Get(ph, Lower(EXAMPLES)),
                        Or(Get(ph, EXAMPLE),
                           Or(Get(ph, Lower(EXAMPLE)), JArr(<< >>)))))
    IN IF Truthy(inside) THEN inside ELSE JNull

\* FewShot.placeholder_values, once _select_examples has returned examples
FewShot_placeholder_values(ph, examples) ==
    JObj(<<[k |-> PERSONA, v |-> GetOr(ph, PERSONA, JStr(<< >>))],
           [k |-> TASK, v |-> GetOr(ph, TASK, JStr(<< >>))],
           [k |-> INSTRUCTIONS,
            v |-> JStr(JoinLines(GetOr(ph, INSTRUCTIONS, JArr(<< >>))))],
           [k |-> SCHEMAS,
            v |-> JStr(DumpsIndent(GetOr(ph, SCHEMAS, JObj(<< >>)), 0, TRUE))],
           [k |-> EXAMPLE, v |-> JStr(DumpsIndent(examples, 0, FALSE))]>>)

\* Raw.placeholder_values
Raw_placeholder_values(ph) ==
    JObj(<<[k |-> PROMPT, v |-> GetOr(ph, PROMPT, JStr(<< >>))]>>)

\* _wrap(placeholder, value): pretty-print one section
_wrap(placeholder, value) ==
    IF value.t = "null" \/ (value.t = "str" /\ value.s = << >>) THEN << >>
    ELSE IF placeholder = INSTRUCTIONS /\ value.t = "arr" THEN JoinLines(value)
    ELSE IF placeholder = SCHEMAS
    THEN <<"S", "c", "h", "e", "m", "a", ":">> \o <<"\n">>
         \o (IF value.t = "str" THEN value.s ELSE DumpsIndent(value, 0, FALSE))
    ELSE IF placeholder \in {EXAMPLE, EXAMPLES}
    THEN <<"E", "x", "a", "m", "p", "l", "e", "s", ":">> \o <<"\n">>
         \o (IF value.t = "str" THEN value.s ELSE DumpsIndent(value, 0, FALSE))
    ELSE PyStr(value)

\* the loop of Prompter.build over the template order: the non-empty sections
Sections(order, values, ph) ==
    LET part == [i \in 1..Len(order) |->
                    _wrap(order[i], Or(Get(values, order[i]), Get(ph, order[i])))]
        kept == SelectIndices(Len(order), LAMBDA i : part[i] # << >>)
    IN [k \in 1..Len(kept) |-> part[kept[k]]]

\* the sections are joined by a single line break
Build_single_break(ph, strategy, order) ==
    IF Lower(strategy) = <<"f", "e", "w">> /\ _select_examples(ph).t = "null"
    THEN [ok |-> FALSE, prompt |-> << >>, error |-> "ValueError"]
    ELSE [ok |-> TRUE,
          prompt |-> Strip(Join(<<"\n">>,
                          Sections(order,
                                   IF Lower(strategy) = <<"z", "e", "r", "o">>
                                   THEN ZeroShot_placeholder_values(ph)
                                   ELSE IF Lower(strategy) = <<"f", "e", "w">>
                                   THEN FewShot_placeholder_values(ph, _select_examples(ph))
                                   ELSE JObj(Append(Raw_placeholder_values(ph).kv,
                                                    [k |-> TASK, v |-> GetOr(ph, TASK, JStr(<< >>))])),
                                   ph))),
          error |-> ""]

\* Prompter.build for a constructed Prompter: ok and the prompt, or the error raised
Build(ph, strategy, order) ==
    LET name == Lower(strategy)
        examples == _select_examples(ph)
        supplied == IF name = <<"z", "e", "r", "o">> THEN ZeroShot_placeholder_values(ph)
                    ELSE IF name = <<"f", "e", "w">> THEN FewShot_placeholder_values(ph, examples)
                    ELSE Raw_placeholder_values(ph)
        values == IF HasKey(supplied, TASK) THEN supplied
                  ELSE JObj(Append(supplied.kv,
                                   [k |-> TASK, v |-> GetOr(ph, TASK, JStr(<< >>))]))
    IN IF name = <<"f", "e", "w">> /\ examples.t = "null"
       THEN [ok |-> FALSE, prompt |-> << >>, error |-> "ValueError"]
       ELSE [ok |-> TRUE,
             prompt |-> Strip(Join(<<"\n", "\n">>, Sections(order, values, ph))),
             error |-> ""]

\* the template file Prompter.__init__ picks: <strategy>.yaml, then
\* <strategy.lower()>_shot.yaml; << >> where neither exists
TemplateFile(strategy, templates) ==
    LET cand == <<strategy \o <<".", "y", "a", "m", "l">>, Lower(strategy) \o <<"_", "s", "h", "o", "t", ".", "y", "a", "m", "l">>>>
        found == SelectSeq(cand, LAMBDA p : p \in DOMAIN templates)
    IN IF found = << >> THEN << >> ELSE found[1]

\* Prompter.__init__: looks the strategy up (ValueError when it is not registered)
\* and loads its template (FileNotFoundError when there is none)
PrompterInit(strategy, templates) ==
    IF Lower(strategy) \notin _REGISTRY
    THEN [ok |-> FALSE, order |-> << >>, error |-> "ValueError"]
    ELSE IF TemplateFile(strategy, templates) = << >>
    THEN [ok |-> FALSE, order |-> << >>, error |-> "FileNotFoundError"]
    ELSE [ok |-> TRUE, order |-> templates[TemplateFile(strategy, templates)],
          error |-> ""]

\* Prompter(schema_json, strategy).build(), as the stages' constructors call it
PrompterBuild(ph, strategy, templates) ==
    LET made == PrompterInit(strategy, templates) IN
    IF made.ok THEN Build(ph, strategy, made.order)
    ELSE [ok |-> FALSE, prompt |-> << >>, error |-> made.error]

(***************************************************************************)
(* The schemas, strategy names and template directories the model builds   *)
(* prompts from.                                                           *)
(***************************************************************************)
Example1 ==
    JObj(<<[k |-> <<"t", "e", "x", "t">>, v |-> JStr(<<"t", "1">>)],
           [k |-> <<"c", "l", "a", "s", "s", "i", "f", "i", "c", "a", "t", "i", "o", "n">>, v |-> JStr(<<"r", "e", "l", "e", "v", "a", "n", "t">>)]>>)
Example2 ==
    JObj(<<[k |-> <<"t", "e", "x", "t">>, v |-> JStr(<<"t", "2">>)],
           [k |-> <<"o", "u", "t", "p", "u", "t">>, v |-> JObj(<<[k |-> <<"f">>, v |-> JStr(<<"v">>)]>>)]>>)

\* the members a schema may hold under one key: none, or the key with a value
Members(key, values) == {<< >>} \cup {<<[k |-> key, v |-> v]>> : v \in values}

ExampleKeys == {EXAMPLES, Lower(EXAMPLES), EXAMPLE, Lower(EXAMPLE)}
Schemas ==
    {JObj(p \o k \o i \o s \o e) :
        p \in Members(PERSONA, {JStr(<<"X">>)}),
        k \in Members(TASK, {JStr(<<"Y">>)}),
        i \in Members(INSTRUCTIONS, {JArr(<< >>), JArr(<<JStr(<<"a">>), JStr(<<"b">>)>>)}),
        s \in Members(SCHEMAS, {JObj(<< >>), JStr(<<"l", "a", "b", "e", "l">>),
                                JObj(<<[k |-> <<"f">>, v |-> JStr(<<"d", "e", "s", "c">>)]>>)}),
        e \in UNION {Members(key, {JArr(<< >>), JArr(<<Example1>>), JArr(<<Example1, Example2>>)}) : key \in ExampleKeys}}
    \* schemas that hold examples under several keys, in file order
    \cup {JObj(<<[k |-> TASK, v |-> JStr(<<"Y">>)]>> \o e) :
            e \in {<<[k |-> EXAMPLE, v |-> JArr(<<Example2>>)],
                      [k |-> EXAMPLES, v |-> JArr(<<Example1, Example2>>)]>>,
                    <<[k |-> EXAMPLES, v |-> JArr(<< >>)],
                      [k |-> Lower(EXAMPLE), v |-> JArr(<<Example2>>)],
                      [k |-> Lower(EXAMPLES), v |-> JArr(<<Example1>>)]>>,
                    <<[k |-> Lower(EXAMPLE), v |-> JArr(<<Example1, Example2>>)],
                      [k |-> EXAMPLE, v |-> JArr(<<Example2, Example1>>)]>>}}

WithExample == <<PERSONA, TASK, INSTRUCTIONS, SCHEMAS, EXAMPLE>>

(***************************************************************************)
(* A Prompter: constructed, then built.                                    *)
(***************************************************************************)
PrompterIdle ==
    [pc |-> "idle", schema_json |-> JNull, strategy |-> << >>, templates |-> << >>,
     order |-> << >>, prompt |-> << >>, error |-> ""]

PrompterConstructed(p, made) ==
    [p EXCEPT !.pc = IF made.ok THEN "constructed" ELSE "raised",
              !.order = made.order,
              !.error = made.error]

\* Prompter.__init__
PrompterConstruct ==
    /\ pr.pc = "new"
    /\ pr' = PrompterConstructed(pr, PrompterInit(pr.strategy, pr.templates))
    /\ UNCHANGED <<clf, ks, jx, pipe, script, chunker>>

PrompterBuilt(p, built) ==
    [p EXCEPT !.pc = IF built.ok THEN "built" ELSE "raised",
              !.prompt = built.prompt,
              !.error = built.error]

\* Prompter.build
PrompterBuildCall ==
    /\ pr.pc = "constructed"
    /\ pr' = PrompterBuilt(pr, Build(pr.schema_json, pr.strategy, pr.order))
    /\ UNCHANGED <<clf, ks, jx, pipe, script, chunker>>

(***************************************************************************)
(* The two LLM stages.  A paragraph, a Classification Record and an        *)
(* Extraction Record are Python dicts of JSON values, so they are JSON     *)
(* objects here.  A duration is a number of hundredths of a second (the    *)
(* code rounds to two decimals) or None (JNull).                           *)
(***************************************************************************)
KeyClassification == <<"c", "l", "a", "s", "s", "i", "f", "i", "c", "a", "t", "i", "o", "n">>
KeyRawOutput == <<"r", "a", "w", "_", "o", "u", "t", "p", "u", "t">>
KeyPrompt == <<"p", "r", "o", "m", "p", "t">>
KeyDuration == <<"d", "u", "r", "a", "t", "i", "o", "n">>
KeyData == <<"d", "a", "t", "a">>
Relevant == <<"r", "e", "l", "e", "v", "a", "n", "t">>
Irrelevant == <<"i", "r", "r", "e", "l", "e", "v", "a", "n", "t">>

\* the value of a string of decimal digits, and the digits of a natural number
RECURSIVE NumOf(_)
NumOf(s) == IF s = << >> THEN 0
            ELSE 10 * NumOf(SubSeq(s, 1, Len(s) - 1))
                 + (CHOOSE d \in 0..9 : ToString(d) = s[Len(s)])

RECURSIVE DigitsOf(_)
DigitsOf(n) == IF n < 10 THEN <<ToString(n)>>
               ELSE Append(DigitsOf(n \div 10), ToString(n % 10))

\* {**item, k1: v1, ...}
DictWith(item, members) == JObj(UpdateAll(item.kv, members))

\* (item.get("Text") or item.get("text") or "").strip()
ItemText(item) ==
    Strip(Or(Get(item, <<"T", "e", "x", "t">>), Or(Get(item, <<"t", "e", "x", "t">>), JStr(<< >>))).s)

\* f"{self.base_prompt}\n\n\"text\": \"{text}\""
ItemPrompt(base_prompt, text) ==
    base_prompt \o <<"\n", "\n">> \o <<"\"", "t", "e", "x", "t", "\"", ":", " ", "\"">> \o text \o <<"\"">>

\* a response without a label counts as relevant
ParsedLabel_default_relevant(parsed) ==
    LET value == Or(Get(parsed, KeyClassification), JStr(Relevant)) IN
    IF parsed.t # "obj" \/ value.t # "str"
    THEN [ok |-> FALSE, label |-> << >>]
    ELSE [ok |-> TRUE, label |-> Strip(Lower(value.s))]

\* the label Classifier.predict reads from the parsed output: ok is FALSE where
\* the expression raises AttributeError (the parsed value has no get(), or the
\* classification value is truthy and has no lower())
ParsedLabel(parsed) ==
    LET value == Or(Get(parsed, KeyClassification), JStr(<< >>)) IN
    IF parsed.t # "obj" \/ value.t # "str"
    THEN [ok |-> FALSE, label |-> << >>]
    ELSE [ok |-> TRUE, label |-> Strip(Lower(value.s))]

\* the label is kept as the LLM gave it
ValidLabel_unforced(label) == label

\* lines 109-111: any label but the two is forced to "irrelevant"
ValidLabel(label) == IF label \notin {Relevant, Irrelevant} THEN Irrelevant ELSE label

\* the record Classifier.predict appends for an item
ClassificationRecord(item, label, raw, item_prompt, dur) ==
    DictWith(item, <<[k |-> KeyClassification, v |-> JStr(label)],
                     [k |-> KeyRawOutput, v |-> JStr(raw)],
                     [k |-> KeyPrompt, v |-> JStr(item_prompt)],
                     [k |-> KeyDuration, v |-> dur]>>)

\* the record Structurer.predict appends for an item
ExtractionRecord(item, extracted, raw, item_prompt, dur) ==
    DictWith(item, <<[k |-> KeyData, v |-> extracted],
                     [k |-> KeyRawOutput, v |-> JStr(raw)],
                     [k |-> KeyPrompt, v |-> JStr(item_prompt)],
                     [k |-> KeyDuration, v |-> dur]>>)

(***************************************************************************)
(* What the stages are run on: paragraphs, stage configurations and the    *)
(* texts the LLM may return.                                               *)
(***************************************************************************)
Paragraph(source, key, text) ==
    JObj(<<[k |-> <<"S", "o", "u", "r", "c", "e">>, v |-> JStr(source)], [k |-> key, v |-> JStr(text)]>>)

\* all_paragraphs.json: both spellings of the text key, text with white space
\* around it, an empty text
Corpus ==
    <<Paragraph(<<"a">>, <<"T", "e", "x", "t">>, <<"p", "1">>),
      Paragraph(<<"b">>, <<"t", "e", "x", "t">>, <<" ", "p", "2", "\n">>),
      Paragraph(<<"c">>, <<"T", "e", "x", "t">>, << >>),
      Paragraph(<<"d">>, <<"T", "e", "x", "t">>, <<"p", "4">>)>>

\* the datasets handed to Classifier.predict
ClassifierDatasets == {SubSeq(Corpus, 1, n) : n \in 0..MaxItems}

PlainSchema ==
    JObj(<<[k |-> PERSONA, v |-> JStr(<<"X">>)], [k |-> TASK, v |-> JStr(<<"Y">>)]>>)
ExampleSchema ==
    JObj(Append(PlainSchema.kv, [k |-> EXAMPLES, v |-> JArr(<<Example1>>)]))
EmptyExamplesSchema ==
    JObj(Append(PlainSchema.kv, [k |-> Lower(EXAMPLES), v |-> JArr(<< >>)]))

Templates == (<<"z", "e", "r", "o", "_", "s", "h", "o", "t", ".", "y", "a", "m", "l">> :> WithExample) @@ (<<"f", "e", "w", "_", "s", "h", "o", "t", ".", "y", "a", "m", "l">> :> WithExample)

\* prompt mode and schema file of a stage
StageConfigs ==
    {[prompt_mode |-> <<"z", "e", "r", "o">>, schema_file |-> PlainSchema],
     [prompt_mode |-> <<"f", "e", "w">>, schema_file |-> ExampleSchema],
     [prompt_mode |-> <<"f", "e", "w">>, schema_file |-> PlainSchema],
     [prompt_mode |-> <<"f", "e", "w">>, schema_file |-> EmptyExamplesSchema]}

\* the seconds a call of llm.inference takes, in hundredths
CallDurations == {0, 1}

\* generated_text of the classification LLM
ClassifierOutputs ==
    {<<"backtick", "backtick", "backtick", "j", "s", "o", "n", "\n", "{", "\"", "c", "l", "a", "s", "s", "i", "f", "i", "c", "a", "t", "i", "o", "n", "\"", ":", " ", "\"", "r", "e", "l", "e", "v", "a", "n", "t", "\"", "}", "\n", "backtick", "backtick", "backtick">>,
     <<"{", "\"", "c", "l", "a", "s", "s", "i", "f", "i", "c", "a", "t", "i", "o", "n", "\"", ":", " ", "\"", " ", "R", "e", "l", "e", "v", "a", "n", "t", " ", "\"", "}">>,
     <<"{", "\"", "c", "l", "a", "s", "s", "i", "f", "i", "c", "a", "t", "i", "o", "n", "\"", ":", " ", "\"", "i", "r", "r", "e", "l", "e", "v", "a", "n", "t", "\"", "}">>,
     <<"{", "\"", "c", "l", "a", "s", "s", "i", "f", "i", "c", "a", "t", "i", "o", "n", "\"", ":", " ", "\"", "m", "a", "y", "b", "e", "\"", "}">>,
     <<"{", "\"", "c", "l", "a", "s", "s", "i", "f", "i", "c", "a", "t", "i", "o", "n", "\"", ":", " ", "n", "u", "l", "l", "}">>,
     <<"{", "\"", "l", "a", "b", "e", "l", "\"", ":", " ", "\"", "r", "e", "l", "e", "v", "a", "n", "t", "\"", "}">>,
     <<"{", "\"", "c", "l", "a", "s", "s", "i", "f", "i", "c", "a", "t", "i", "o", "n", "\"", ":", " ", "1", "}">>,
     <<"{", "\"", "c", "l", "a", "s", "s", "i", "f", "i", "c", "a", "t", "i", "o", "n", "\"", ":", " ", "[", "\"", "r", "e", "l", "e", "v", "a", "n", "t", "\"", "]", "}">>,
     <<"n", "o", "t", " ", "j", "s", "o", "n", " ", "a", "t", " ", "a", "l", "l">>}

(***************************************************************************)
(* extractor/classifier.py: Classifier.__init__ and Classifier.predict.    *)
(* idx is the loop index (from 0), outcomes the history of the LLM calls   *)
(* ("text" or "raise"), calls their number, log the events written.        *)
(***************************************************************************)
StageIdle ==
    [pc |-> "idle", prompt_mode |-> << >>, schema_file |-> JNull, dataset |-> << >>,
     base_prompt |-> << >>, prompt_logged |-> FALSE, idx |-> 0, item_prompt |-> << >>,
     raw |-> << >>, dur |-> JNull, full |-> << >>, relevant |-> << >>,
     results |-> << >>, calls |-> 0, outcomes |-> << >>, log |-> << >>, error |-> ""]

StageNew(cfg, dataset) ==
    [StageIdle EXCEPT !.pc = "new", !.prompt_mode = cfg.prompt_mode,
                      !.schema_file = cfg.schema_file, !.dataset = dataset]

\* the constructor of a stage builds the base prompt; the error of the build is
\* the constructor's
StageConstructed(c, built) ==
    [c EXCEPT !.pc = IF built.ok THEN "ready" ELSE "init_raised",
              !.base_prompt = built.prompt,
              !.prompt_logged = FALSE,
              !.error = built.error]

ClfConstruct ==
    /\ clf.pc = "new"
    /\ clf' = StageConstructed(clf, PrompterBuild(clf.schema_file, clf.prompt_mode, Templates))
    /\ UNCHANGED <<ks, jx, pr, pipe, script, chunker>>

\* predict(dataset) up to the for loop
ClfPredict ==
    /\ clf.pc = "ready"
    /\ clf' = [clf EXCEPT !.pc = "loop", !.idx = 0, !.full = << >>, !.relevant = << >>,
                          !.log = Append(@, "started")]
    /\ UNCHANGED <<ks, jx, pr, pipe, script, chunker>>

\* lines 80-89: the item's text and prompt; the base prompt is logged once
ClfPrompt ==
    /\ clf.pc = "loop"
    /\ clf.idx < Len(clf.dataset)
    /\ clf' = [clf EXCEPT
                 !.pc = "infer",
                 !.item_prompt = ItemPrompt(clf.base_prompt,
                                            ItemText(clf.dataset[clf.idx + 1])),
                 !.log = IF clf.prompt_logged THEN @ ELSE Append(@, "BASE PROMPT"),
                 !.prompt_logged = TRUE]
    /\ UNCHANGED <<ks, jx, pr, pipe, script, chunker>>

\* lines 92-100: the call of llm.inference returns a text, or raises
ClfInfer ==
    /\ clf.pc = "infer"
    /\ \/ \E text \in ClassifierOutputs, d \in CallDurations :
             clf' = [clf EXCEPT !.pc = "label", !.raw = text,
                                !.dur = JNum(DigitsOf(d)),
                                !.calls = @ + 1,
                                !.outcomes = Append(@, "text")]
       \/ clf' = [clf EXCEPT !.pc = "label", !.raw = << >>, !.dur = JNull,
                             !.calls = @ + 1,
                             !.outcomes = Append(@, "raise"),
                             !.log = Append(@, "inference failed")]
    /\ UNCHANGED <<ks, jx, pr, pipe, script, chunker>>

\* every record goes to the relevant list
ClfAppend_all(c, found, label) ==
    [c EXCEPT !.pc = "loop",
              !.idx = @ + 1,
              !.full = Append(@, ClassificationRecord(c.dataset[c.idx + 1], label,
                                                      c.raw, c.item_prompt, c.dur)),
              !.relevant = Append(@, ClassificationRecord(c.dataset[c.idx + 1], label,
                                                          c.raw, c.item_prompt, c.dur))]

\* lines 109-120: the label is validated and the record appended
ClfAppend(c, found, label) ==
    [c EXCEPT !.pc = "loop",
              !.idx = @ + 1,
              !.log = IF label = found THEN @ ELSE Append(@, "Invalid label"),
              !.full = Append(@, ClassificationRecord(c.dataset[c.idx + 1], label,
                                                      c.raw, c.item_prompt, c.dur)),
              !.relevant = IF label = Relevant
                           THEN Append(@, ClassificationRecord(c.dataset[c.idx + 1], label,
                                                               c.raw, c.item_prompt, c.dur))
                           ELSE @]

\* line 108: reading the label raises where the value has no lower()
ClfLabelled(c, read) ==
    IF ~read.ok
    THEN [c EXCEPT !.pc = "raised", !.error = "AttributeError"]
    ELSE ClfAppend(c, read.label, ValidLabel(read.label))

\* lines 107-120: parse, read and validate the label, append the record
ClfLabel ==
    /\ clf.pc = "label"
    /\ clf' = ClfLabelled(clf, ParsedLabel(extract_json_from_response(clf.raw)))
    /\ UNCHANGED <<ks, jx, pr, pipe, script, chunker>>

\* lines 122-123: tracker.done and return full, relevant, base_prompt
ClfReturn ==
    /\ clf.pc = "loop"
    /\ clf.idx = Len(clf.dataset)
    /\ clf' = [clf EXCEPT !.pc = "returned", !.log = Append(@, "finished")]
    /\ UNCHANGED <<ks, jx, pr, pipe, script, chunker>>

(***************************************************************************)
(* extractor/structurer.py: Structurer.__init__ and Structurer.predict, on  *)
(* the records the classification stage hands over.                        *)
(***************************************************************************)
\* generated_text of the extraction LLM
StructurerOutputs ==
    {<<"backtick", "backtick", "backtick", "j", "s", "o", "n", "\n", "{", "\"", "f", "\"", ":", " ", "\"", "v", "\"", "}", "\n", "backtick", "backtick", "backtick">>,
     <<"{", "\"", "f", "\"", ":", " ", "\"", "v", "\"", ",", "}">>,
     <<"{", "\"", "f", "\"", ":", " ", "1", "}", " ", "a", "n", "d", " ", "{", "\"", "g", "\"", ":", " ", "\"", "}", "\"", "}">>,
     <<"\"", "f", "\"", ":", " ", "\"", "v", "\"">>,
     <<"n", "o", " ", "j", "s", "o", "n">>}

KsConstruct ==
    /\ ks.pc = "new"
    /\ ks' = StageConstructed(ks, PrompterBuild(ks.schema_file, ks.prompt_mode, Templates))
    /\ UNCHANGED <<clf, jx, pr, pipe, script, chunker>>

\* predict(dataset) up to the for loop
KsPredict ==
    /\ ks.pc = "ready"
    /\ ks' = [ks EXCEPT !.pc = "loop", !.idx = 0, !.results = << >>,
                        !.log = Append(@, "started")]
    /\ UNCHANGED <<clf, jx, pr, pipe, script, chunker>>

\* lines 77-84: the item's text and prompt; the base prompt is logged once
KsPrompt ==
    /\ ks.pc = "loop"
    /\ ks.idx < Len(ks.dataset)
    /\ ks' = [ks EXCEPT
                !.pc = "infer",
                !.item_prompt = ItemPrompt(ks.base_prompt,
                                           ItemText(ks.dataset[ks.idx + 1])),
                !.log = IF ks.prompt_logged THEN @ ELSE Append(@, "BASE PROMPT"),
                !.prompt_logged = TRUE]
    /\ UNCHANGED <<clf, jx, pr, pipe, script, chunker>>

\* the failed call is given the duration 0
KsFailed_timed(c, outcome) ==
    [c EXCEPT !.pc = "store", !.raw = << >>, !.dur = JNum(<<"0">>),
              !.calls = @ + 1,
              !.outcomes = Append(@, outcome),
              !.log = Append(@, "inference failed")]

\* lines 91-94: the except branch
KsFailed(c, outcome) ==
    [c EXCEPT !.pc = "store", !.raw = << >>, !.dur = JNull,
              !.calls = @ + 1,
              !.outcomes = Append(@, outcome),
              !.log = Append(@, "inference failed")]

\* lines 89-90: the call returned text after d hundredths; adding the item's
\* duration raises TypeError where that is not a number
KsAnswered(c, text, d, upstream) ==
    IF upstream.t = "num"
    THEN [c EXCEPT !.pc = "store", !.raw = text,
                   !.dur = JNum(DigitsOf(d + NumOf(upstream.s))),
                   !.calls = @ + 1,
                   !.outcomes = Append(@, "text")]
    ELSE KsFailed(c, "text")

\* lines 86-94: the call of llm.inference returns a text, or raises
KsInfer ==
    /\ ks.pc = "infer"
    /\ \/ \E text \in StructurerOutputs, d \in CallDurations :
             ks' = KsAnswered(ks, text, d, Get(ks.dataset[ks.idx + 1], KeyDuration))
       \/ ks' = KsFailed(ks, "raise")
    /\ UNCHANGED <<clf, jx, pr, pipe, script, chunker>>

\* an item without raw output is skipped
KsAppended_dropping(c, extracted) ==
    [c EXCEPT !.pc = "loop",
              !.idx = @ + 1,
              !.results = IF c.raw = << >> THEN @
                          ELSE Append(@, ExtractionRecord(c.dataset[c.idx + 1], extracted,
                                                          c.raw, c.item_prompt, c.dur))]

\* the record is written into the item itself, which is then appended
KsAppended_in_place(c, extracted) ==
    [c EXCEPT !.pc = "loop",
              !.idx = @ + 1,
              !.dataset[c.idx + 1] = ExtractionRecord(c.dataset[c.idx + 1], extracted,
                                                      c.raw, c.item_prompt, c.dur),
              !.results = Append(@, ExtractionRecord(c.dataset[c.idx + 1], extracted,
                                                     c.raw, c.item_prompt, c.dur))]

KsAppended(c, extracted) ==
    [c EXCEPT !.pc = "loop",
              !.idx = @ + 1,
              !.results = Append(@, ExtractionRecord(c.dataset[c.idx + 1], extracted,
                                                     c.raw, c.item_prompt, c.dur))]

\* lines 100-106: parse and append the record
KsStore ==
    /\ ks.pc = "store"
    /\ ks' = KsAppended(ks, extract_json_from_response(ks.raw))
    /\ UNCHANGED <<clf, jx, pr, pipe, script, chunker>>

\* lines 108-109: tracker.done and return results, base_prompt
KsReturn ==
    /\ ks.pc = "loop"
    /\ ks.idx = Len(ks.dataset)
    /\ ks' = [ks EXCEPT !.pc = "returned", !.log = Append(@, "finished")]
    /\ UNCHANGED <<clf, jx, pr, pipe, script, chunker>>

(***************************************************************************)
(* extract_json_from_response on a response text, and again on the         *)
(* json.dumps of what it returned.                                         *)
(***************************************************************************)
\* the pieces LLM responses are made of
ResponseTokens ==
    {<<"backtick", "backtick", "backtick", "j", "s", "o", "n", "\n", "{", "\"", "a", "\"", ":", " ", "\"", "}", "{", "\"", "}", "\n", "backtick", "backtick", "backtick">>,
     <<"backtick", "backtick", "backtick", "\n", "{", "\"", "b", "\"", ":", " ", "[", "1", ",", " ", "\"", "x", "\"", "]", ",", "}", "\n", "backtick", "backtick", "backtick">>,
     <<"{", "\"", "a", "\"", ":", " ", "1", "}">>,
     <<"{", "\"", "c", "\"", ":", " ", "{", "\"", "d", "\"", ":", " ", "n", "u", "l", "l", "}">>,
     <<"{", "\"", "e", "\"", ":", " ", "\"", "ldquo", "q", "rdquo", "\"", "}">>,
     <<"\"", "k", "\"", ":", " ", "\"", "v", "\"">>,
     <<"A", "n", "s", "w", "e", "r", ":", " ">>,
     <<"}">>,
     <<"\n">>,
     <<"backtick", "backtick", "backtick", "j", "s", "o", "n", "\n", "{", "o", "o", "p", "s", "}", "\n", "backtick", "backtick", "backtick">>,
     <<"{", "\"", "a", "\"", ":", " ", "2", ",", " ", "\"", "b", "\"", ":", " ", "3", "}">>,
     <<"k", "e", "y", "1", ":", " ", "\"", "a", "\"", "\n", "k", "e", "y", "2", ":", " ", "\"", "b", "\"">>,
     <<"\"", "k", "e", "y", "1", "\"", ":", " ", "\"", "a", "\"", "\n", "\"", "k", "e", "y", "2", "\"", ":", " ", "\"", "b", "\"">>,
     <<"n", "o", "t", " ", "j", "s", "o", "n", " ", "a", "t", " ", "a", "l", "l">>}

\* the texts of at most n tokens
RECURSIVE ResponseTexts(_)
ResponseTexts(n) ==
    IF n = 0 THEN {<< >>}
    ELSE ResponseTexts(n - 1)
            \cup {s \o tok : s \in ResponseTexts(n - 1), tok \in ResponseTokens}

JxIdle == [pc |-> "idle", response_text |-> << >>, result |-> JNull, again |-> JNull]

JxExtract ==
    /\ jx.pc = "new"
    /\ jx' = [jx EXCEPT !.pc = "extracted",
                        !.result = extract_json_from_response(jx.response_text)]
    /\ UNCHANGED <<clf, ks, pr, pipe, script, chunker>>

JxRoundTrip ==
    /\ jx.pc = "extracted"
    /\ jx' = [jx EXCEPT !.pc = "done",
                        !.again = extract_json_from_response(Dumps(jx.result))]
    /\ UNCHANGED <<clf, ks, pr, pipe, script, chunker>>

(***************************************************************************)
(* extractor/pipeline.py: ExtractorPipeline.run.  The constructor call of   *)
(* the classification stage raises, so the statements of run() after it    *)
(* (lines 86-115: predict, the three result files, the extraction stage    *)
(* and the metadata file) are never reached and have no action here.       *)
(***************************************************************************)
\* ingest is the content of <ingest_dir>/all_paragraphs.json, JNull when the
\* file does not exist; files are the result files run() has written
PipeIdle ==
    [pc |-> "idle", ingest |-> JNull, prompt_mode |-> << >>, cls_schema |-> JNull,
     ext_schema |-> JNull, paragraphs |-> << >>, files |-> {}, error |-> ""]

\* a missing file counts as an empty list of paragraphs
_load_paragraphs_lenient ==
    /\ pipe.pc = "new"
    /\ pipe' = [pipe EXCEPT !.pc = "loaded",
                            !.paragraphs = [i \in 1..Len(pipe.ingest.kv) |->
                                               pipe.ingest.kv[i].v]]
    /\ UNCHANGED <<clf, ks, jx, pr, script, chunker>>

\* lines 57-63 and 71-72
_load_paragraphs ==
    /\ pipe.pc = "new"
    /\ pipe' = IF pipe.ingest = JNull
               THEN [pipe EXCEPT !.pc = "raised", !.error = "FileNotFoundError"]
               ELSE [pipe EXCEPT !.pc = "loaded",
                                 !.paragraphs = [i \in 1..Len(pipe.ingest.kv) |->
                                                    pipe.ingest.kv[i].v]]
    /\ UNCHANGED <<clf, ks, jx, pr, script, chunker>>

\* lines 75-85: the call binds its keywords to the keyword-only parameters of
\* Classifier.__init__ (classifier.py:27-43) before the constructor's body runs;
\* a keyword that is no parameter is a TypeError
PipeClassification ==
    /\ pipe.pc = "loaded"
    /\ IF {"config", "provider", "model_name", "schema_file", "prompt_mode", "num_exem",
           "output_dir", "logger", "metadata"}
             \subseteq {"config", "provider", "prompt_mode", "schema_file", "num_exem",
                        "output_dir", "logger", "metadata", "chosen_examples",
                        "fallback_dataset", "debug_io", "debug_llm"}
       THEN /\ pipe' = [pipe EXCEPT !.pc = "classification"]
            /\ clf' = StageNew([prompt_mode |-> pipe.prompt_mode,
                                schema_file |-> pipe.cls_schema], pipe.paragraphs)
       ELSE /\ pipe' = [pipe EXCEPT !.pc = "raised", !.error = "TypeError"]
            /\ clf' = clf
    /\ UNCHANGED <<ks, jx, pr, script, chunker>>

(***************************************************************************)
(* run_pipeline.py, the module body from the classification step on: the    *)
(* paragraphs have been converted and read (lines 116-131).  A schema of    *)
(* the configuration is what the YAML file gives: a mapping, or the path of *)
(* a JSON file (path is TRUE, json is the content of the file).  The two    *)
(* stages are the frames clf and ks.                                       *)
(***************************************************************************)
MaxRunItems == 1    \* longest paragraph list of a run of the script

EXAMPLE_KEYS == {Lower(EXAMPLES), EXAMPLES, Lower(EXAMPLE), EXAMPLE}

\* lines 85-93: on a path "k in schema" is a substring test and schema[k] a
\* TypeError, which the except clause turns into False
_schema_has_examples(schema) ==
    /\ ~schema.path
    /\ \E k \in EXAMPLE_KEYS : HasKey(schema.json, k) /\ Truthy(Get(schema.json, k))

\* lines 96-103: TRUE where the RuntimeError is raised
_assert_examples(config, schema) ==
    /\ \/ config.prompt_mode_classification = <<"f", "e", "w">>
       \/ config.prompt_mode_extraction = <<"f", "e", "w">>
    /\ ~_schema_has_examples(schema)

ScriptIdle ==
    [pc |-> "idle",
     config |-> [prompt_mode_classification |-> << >>, prompt_mode_extraction |-> << >>],
     classification_schema |-> [path |-> FALSE, json |-> JNull],
     extraction_schema |-> [path |-> FALSE, json |-> JNull],
     paragraphs |-> << >>, pred_all |-> << >>, relevant_only |-> << >>,
     files |-> << >>, error |-> "", stage |-> ""]

\* the configurations and paragraph lists the script is run on
ScriptRuns ==
    {[ScriptIdle EXCEPT !.pc = "classification",
                        !.config = [prompt_mode_classification |-> cl,
                                    prompt_mode_extraction |-> ex],
                        !.classification_schema = [path |-> path, json |-> cs],
                        !.extraction_schema = [path |-> path, json |-> es],
                        !.paragraphs = SubSeq(Corpus, 1, n)] :
        cl \in {<<"z", "e", "r", "o">>, <<"f", "e", "w">>}, ex \in {<<"z", "e", "r", "o">>, <<"f", "e", "w">>, <<"c", "o", "t">>},
        cs \in {PlainSchema, ExampleSchema}, es \in {PlainSchema, ExampleSchema},
        path \in BOOLEAN, n \in 0..MaxRunItems}

ScriptRaised(s, stage, error) == [s EXCEPT !.pc = "raised", !.stage = stage, !.error = error]

\* lines 136-156: the example check, then the constructor call of the classifier
ScriptClassification ==
    /\ script.pc = "classification"
    /\ IF _assert_examples(script.config, script.classification_schema)
       THEN /\ script' = ScriptRaised(script, "classification", "RuntimeError")
            /\ clf' = clf
       ELSE /\ script' = [script EXCEPT !.pc = "classifier"]
            /\ clf' = StageNew([prompt_mode |-> script.config.prompt_mode_classification,
                                schema_file |-> script.classification_schema.json],
                               script.paragraphs)
    /\ UNCHANGED <<ks, jx, pr, pipe, chunker>>

\* lines 145 and 159: an error of Classifier.__init__ or of predict ends the script
ScriptClassifierRaised ==
    /\ script.pc = "classifier"
    /\ clf.pc \in {"init_raised", "raised"}
    /\ script' = ScriptRaised(script, "classification", clf.error)
    /\ UNCHANGED <<clf, ks, jx, pr, pipe, chunker>>

\* lines 159-169: predict has returned; the two classification files are written
ScriptWriteClassified ==
    /\ script.pc = "classifier"
    /\ clf.pc = "returned"
    /\ script' = [script EXCEPT
          !.pc = "extraction",
          !.pred_all = clf.full,
          !.relevant_only = clf.relevant,
          !.files = @ \o <<"classification/classified_full.json",
                           "classification/classified_relevant.json">>]
    /\ UNCHANGED <<clf, ks, jx, pr, pipe, chunker>>

\* the structurer is given every classified record, not the relevant ones
ScriptExtraction_all ==
    /\ script.pc = "extraction"
    /\ IF _assert_examples(script.config, script.extraction_schema)
       THEN /\ script' = ScriptRaised(script, "extraction", "RuntimeError")
            /\ ks' = ks
       ELSE /\ script' = [script EXCEPT !.pc = "structurer"]
            /\ ks' = StageNew([prompt_mode |-> script.config.prompt_mode_extraction,
                               schema_file |-> script.extraction_schema.json],
                              script.pred_all)
    /\ UNCHANGED <<clf, jx, pr, pipe, chunker>>

\* lines 172-186: the example check, then the constructor call of the structurer
ScriptExtraction ==
    /\ script.pc = "extraction"
    /\ IF _assert_examples(script.config, script.extraction_schema)
       THEN /\ script' = ScriptRaised(script, "extraction", "RuntimeError")
            /\ ks' = ks
       ELSE /\ script' = [script EXCEPT !.pc = "structurer"]
            /\ ks' = StageNew([prompt_mode |-> script.config.prompt_mode_extraction,
                               schema_file |-> script.extraction_schema.json],
                              script.relevant_only)
    /\ UNCHANGED <<clf, jx, pr, pipe, chunker>>

\* lines 175 and 187: an error of Structurer.__init__ ends the script
ScriptStructurerRaised ==
    /\ script.pc = "structurer"
    /\ ks.pc \in {"init_raised", "raised"}
    /\ script' = ScriptRaised(script, "extraction", ks.error)
    /\ UNCHANGED <<clf, ks, jx, pr, pipe, chunker>>

\* lines 187-215: predict has returned; structured.json and the general metadata
\* are written, then llm_metadata.json, whose example counts are read with
\* .get from the two schemas (an AttributeError on a path); the extraction
\* configuration is taken to hold a classification_schema too (line 207)
ScriptWriteStructured ==
    /\ script.pc = "structurer"
    /\ ks.pc = "returned"
    /\ script' =
          IF script.classification_schema.path \/ script.extraction_schema.path
          THEN [ScriptRaised(script, "metadata", "AttributeError") EXCEPT
                   !.files = @ \o <<"extraction/structured.json", "general_metadata.json">>]
          ELSE [script EXCEPT
                   !.pc = "done",
                   !.files = @ \o <<"extraction/structured.json", "general_metadata.json",
                                    "llm_metadata.json">>]
    /\ UNCHANGED <<clf, ks, jx, pr, pipe, chunker>>

(***************************************************************************)
(* ingest/chunker.py: Chunker.split with the fixed strategy.  The list     *)
(* comprehension of _fixed is a loop over range(0, len(words), step): i is *)
(* the value the range gives next, chunks the list built so far.           *)
(***************************************************************************)
\* str.split(): the maximal runs of characters that are not white space
PySplit(s) ==
    LET starts == SelectIndices(Len(s),
                      LAMBDA i : s[i] \notin PyWhitespace
                                 /\ (i = 1 \/ s[i - 1] \in PyWhitespace))
    IN [k \in 1..Len(starts) |->
           SubSeq(s, starts[k],
                  Min({j \in starts[k]..Len(s) : s[j] \in PyWhitespace}
                      \cup {Len(s) + 1}) - 1)]

ChunkerIdle ==
    [pc |-> "idle", strategy |-> "", size |-> 0, overlap |-> 0, text |-> << >>,
     words |-> << >>, step |-> 0, i |-> 0, chunks |-> << >>, error |-> ""]

\* the step of the range is taken as size - overlap
ChunkerSplit_unguarded ==
    /\ chunker.pc = "new"
    /\ chunker' =
          IF chunker.strategy \notin {"fixed", "sections"}
          THEN [chunker EXCEPT !.pc = "raised", !.error = "ValueError"]
          ELSE IF chunker.size - chunker.overlap = 0
          THEN [chunker EXCEPT !.pc = "raised", !.error = "ValueError",
                               !.words = PySplit(chunker.text)]
          ELSE [chunker EXCEPT !.pc = "loop",
                               !.words = PySplit(chunker.text),
                               !.step = chunker.size - chunker.overlap,
                               !.i = 0]
    /\ UNCHANGED <<clf, ks, jx, pr, pipe, script>>

\* split (lines 49-58) and lines 38-39 of _fixed: the strategy is dispatched
\* (ValueError for one that is not known), the text is split into words and the
\* step computed; range() raises ValueError for a step of 0
ChunkerSplit ==
    /\ chunker.pc = "new"
    /\ chunker' =
          IF chunker.strategy \notin {"fixed", "sections"}
          THEN [chunker EXCEPT !.pc = "raised", !.error = "ValueError"]
          ELSE IF Max({1, chunker.size - chunker.overlap}) = 0
          THEN [chunker EXCEPT !.pc = "raised", !.error = "ValueError",
                               !.words = PySplit(chunker.text)]
          ELSE [chunker EXCEPT !.pc = "loop",
                               !.words = PySplit(chunker.text),
                               !.step = Max({1, chunker.size - chunker.overlap}),
                               !.i = 0]
    /\ UNCHANGED <<clf, ks, jx, pr, pipe, script>>

\* line 40, one turn: " ".join(words[i : i + self.size]) is appended and the
\* range moves on by step (a range with a negative step and 0 < stop is empty)
ChunkerNext ==
    /\ chunker.pc = "loop"
    /\ chunker.step > 0
    /\ chunker.i < Len(chunker.words)
    /\ chunker' = [chunker EXCEPT
          !.chunks = Append(@, Join(<<" ">>,
                                    SubSeq(chunker.words, chunker.i + 1,
                                           Min({chunker.i + chunker.size,
                                                Len(chunker.words)})))),
          !.i = @ + chunker.step]
    /\ UNCHANGED <<clf, ks, jx, pr, pipe, script>>

\* line 40: the range is exhausted and the list returned
ChunkerReturn ==
    /\ chunker.pc = "loop"
    /\ chunker.step < 0 \/ chunker.i >= Len(chunker.words)
    /\ chunker' = [chunker EXCEPT !.pc = "returned"]
    /\ UNCHANGED <<clf, ks, jx, pr, pipe, script>>

(***************************************************************************)
(* The specifications: one per component, the other components idle.       *)
(***************************************************************************)
InitClassifier ==
    /\ clf \in {StageNew(cfg, dataset) : cfg \in StageConfigs, dataset \in ClassifierDatasets}
    /\ ks = StageIdle
    /\ jx = JxIdle
    /\ pr = PrompterIdle
    /\ pipe = PipeIdle
    /\ script = ScriptIdle
    /\ chunker = ChunkerIdle

NextClassifier ==
    \/ ClfConstruct
    \/ ClfPredict
    \/ ClfPrompt
    \/ ClfInfer
    \/ ClfLabel
    \/ ClfReturn

SpecClassifier == InitClassifier /\ [][NextClassifier]_vars

InitStructurer ==
    /\ clf = StageIdle
    \* the datasets handed to Structurer.predict; the duration an input record
    \* carries is a number of hundredths, or None
    /\ ks \in {StageNew(cfg, dataset) :
                 cfg \in StageConfigs,
                 dataset \in UNION {{[i \in 1..n |-> ClassificationRecord(Corpus[i], Relevant, <<"r">>, <<"p">>, durs[i])] :
                                        durs \in [1..n -> {JNum(<<"5">>), JNull}]} : n \in 0..MaxItems}}
    /\ jx = JxIdle
    /\ pr = PrompterIdle
    /\ pipe = PipeIdle
    /\ script = ScriptIdle
    /\ chunker = ChunkerIdle

NextStructurer ==
    \/ KsConstruct
    \/ KsPredict
    \/ KsPrompt
    \/ KsInfer
    \/ KsStore
    \/ KsReturn

SpecStructurer == InitStructurer /\ [][NextStructurer]_vars

InitExtractor ==
    /\ clf = StageIdle
    /\ ks = StageIdle
    /\ jx \in {[JxIdle EXCEPT !.pc = "new", !.response_text = response_text] : response_text \in ResponseTexts(MaxTokens)}
    /\ pr = PrompterIdle
    /\ pipe = PipeIdle
    /\ script = ScriptIdle
    /\ chunker = ChunkerIdle

NextExtractor ==
    \/ JxExtract
    \/ JxRoundTrip

SpecExtractor == InitExtractor /\ [][NextExtractor]_vars

InitPrompter ==
    /\ clf = StageIdle
    /\ ks = StageIdle
    /\ jx = JxIdle
    /\ pr \in {[pc |-> "new", schema_json |-> ph, strategy |-> strategy, templates |-> templates, order |-> << >>, prompt |-> << >>, error |-> ""] :
                  ph \in Schemas, strategy \in {<<"z", "e", "r", "o">>, <<"f", "e", "w">>, <<"F", "e", "w">>, <<"r", "a", "w">>, <<"c", "o", "t">>}, 
                  \* the directory prompter/templates: one YAML list of placeholder names per file
                  templates \in {(<<"z", "e", "r", "o", "_", "s", "h", "o", "t", ".", "y", "a", "m", "l">> :> zero) @@ (<<"f", "e", "w", "_", "s", "h", "o", "t", ".", "y", "a", "m", "l">> :> WithExample) : zero \in {WithExample, <<PERSONA, TASK, INSTRUCTIONS, SCHEMAS>>}}}
    /\ pipe = PipeIdle
    /\ script = ScriptIdle
    /\ chunker = ChunkerIdle

NextPrompter ==
    \/ PrompterConstruct
    \/ PrompterBuildCall

SpecPrompter == InitPrompter /\ [][NextPrompter]_vars

\* ExtractorPipeline(...).run(), on an ingest directory with or without
\* all_paragraphs.json; run() is sequential code, so a step that can be taken is
\* taken
InitPipeline ==
    /\ clf = StageIdle
    /\ ks = StageIdle
    /\ jx = JxIdle
    /\ pr = PrompterIdle
    /\ pipe \in {[PipeIdle EXCEPT !.pc = "new", !.ingest = ingest,
                                  !.prompt_mode = cfg.prompt_mode,
                                  !.cls_schema = cfg.schema_file,
                                  !.ext_schema = ext_schema] :
                    ingest \in {JNull} \cup {JArr(dataset) : dataset \in ClassifierDatasets},
                    cfg \in StageConfigs,
                    ext_schema \in {PlainSchema, ExampleSchema, EmptyExamplesSchema}}
    /\ script = ScriptIdle
    /\ chunker = ChunkerIdle

NextPipeline ==
    \/ _load_paragraphs
    \/ PipeClassification

SpecPipeline == InitPipeline /\ [][NextPipeline]_vars /\ WF_vars(NextPipeline)

\* python run_pipeline.py, from the classification step on; the two stages run
\* inside it
InitScript ==
    /\ clf = StageIdle
    /\ ks = StageIdle
    /\ jx = JxIdle
    /\ pr = PrompterIdle
    /\ pipe = PipeIdle
    /\ script \in ScriptRuns
    /\ chunker = ChunkerIdle

NextScript ==
    \/ ScriptClassification
    \/ ScriptClassifierRaised
    \/ ScriptWriteClassified
    \/ ScriptExtraction
    \/ ScriptStructurerRaised
    \/ ScriptWriteStructured
    \/ NextClassifier
    \/ NextStructurer

SpecScript == InitScript /\ [][NextScript]_vars

\* a Chunker(strategy, size, overlap) and the text split() is called on, a text
\* being made of words and runs of white space
InitChunker ==
    /\ clf = StageIdle
    /\ ks = StageIdle
    /\ jx = JxIdle
    /\ pr = PrompterIdle
    /\ pipe = PipeIdle
    /\ script = ScriptIdle
    /\ chunker \in {[ChunkerIdle EXCEPT !.pc = "new", !.strategy = strategy,
                                         !.size = size, !.overlap = overlap,
                                         !.text = Flatten(pieces)] :
                        strategy \in {"fixed", "sections", "lines"},
                        size \in 1..MaxSize, overlap \in 0..MaxSize,
                        pieces \in UNION {[1..n -> {<<"a">>, <<"b", "c">>, <<" ", "\n">>}] :
                                             n \in 0..MaxPieces}}

NextChunker ==
    \/ ChunkerSplit
    \/ ChunkerNext
    \/ ChunkerReturn

\* a call that has begun goes on: the loop is the call's own
SpecChunker == InitChunker /\ [][NextChunker]_vars /\ WF_vars(NextChunker)

(***************************************************************************)
(* Properties of Classifier.predict (SpecClassifier).                      *)
(***************************************************************************)
\* C1: for every paragraph sequence and every sequence of LLM outcomes, predict
\* returns (it does not raise) a full list as long as the input whose i-th
\* record carries the Source and text fields of the i-th paragraph.
C1_SameLengthAndOrder ==
    /\ clf.pc # "raised"
    /\ clf.pc = "returned" =>
          /\ Len(clf.full) = Len(clf.dataset)
          /\ \A i \in 1..Len(clf.dataset) :
                \A m \in 1..Len(clf.dataset[i].kv) :
                    Get(clf.full[i], clf.dataset[i].kv[m].k) = clf.dataset[i].kv[m].v

\* C2: every record in the full list has classification "relevant" or
\* "irrelevant", whatever the LLM returned; a label that lower-cases and trims
\* to "relevant" counts as "relevant".
C2_LabelIsOneOfTwo ==
    \A i \in 1..Len(clf.full) :
        /\ Get(clf.full[i], KeyClassification) \in {JStr(Relevant), JStr(Irrelevant)}
        /\ Get(clf.full[i], KeyRawOutput) = JStr(<<"{", "\"", "c", "l", "a", "s", "s", "i", "f", "i", "c", "a", "t", "i", "o", "n", "\"", ":", " ", "\"", " ", "R", "e", "l", "e", "v", "a", "n", "t", " ", "\"", "}">>)
              => Get(clf.full[i], KeyClassification) = JStr(Relevant)

\* a run that has labelled garbage as irrelevant and " Relevant " as relevant
C2_Witness ==
    /\ clf.pc = "returned"
    /\ \E i \in 1..Len(clf.full) :
          /\ Get(clf.full[i], KeyRawOutput) = JStr(<<"{", "\"", "c", "l", "a", "s", "s", "i", "f", "i", "c", "a", "t", "i", "o", "n", "\"", ":", " ", "\"", "m", "a", "y", "b", "e", "\"", "}">>)
          /\ Get(clf.full[i], KeyClassification) = JStr(Irrelevant)
    /\ \E i \in 1..Len(clf.full) :
          /\ Get(clf.full[i], KeyRawOutput) = JStr(<<"{", "\"", "c", "l", "a", "s", "s", "i", "f", "i", "c", "a", "t", "i", "o", "n", "\"", ":", " ", "\"", " ", "R", "e", "l", "e", "v", "a", "n", "t", " ", "\"", "}">>)
          /\ Get(clf.full[i], KeyClassification) = JStr(Relevant)

\* C3: the relevant list is exactly the records of the full list whose
\* classification is "relevant", in the same order.
C3_RelevantIsSublist ==
    clf.relevant =
        SelectSeq(clf.full, LAMBDA rec : Get(rec, KeyClassification) = JStr(Relevant))

\* a returned run with a relevant and an irrelevant record
C3_Witness ==
    /\ clf.pc = "returned"
    /\ Len(clf.relevant) >= 1
    /\ Len(clf.relevant) < Len(clf.full)

\* C4: a classification value that is not one of the two labels (missing, null,
\* another string, a number, true, a list, an object) never makes predict
\* raise, and the item's record is labelled "irrelevant".
C4_OtherValuesForcedIrrelevant ==
    /\ clf.error # "AttributeError"
    /\ \A i \in 1..Len(clf.full) :
          LET parsed == extract_json_from_response(Get(clf.full[i], KeyRawOutput).s)
              value == Get(parsed, KeyClassification)
          IN (value.t # "str" \/ Strip(Lower(value.s)) \notin {Relevant, Irrelevant})
                => Get(clf.full[i], KeyClassification) = JStr(Irrelevant)

\* C5: a paragraph whose LLM call raised gets a record with raw_output "",
\* duration null and classification "irrelevant", and the paragraphs after it
\* are still prompted and classified: the run does not stop before the end.
C5_RaiseYieldsRecordAndGoesOn ==
    \A i \in 1..Len(clf.outcomes) :
        clf.outcomes[i] = "raise" =>
            /\ i <= Len(clf.full) =>
                  /\ Get(clf.full[i], KeyRawOutput) = JStr(<< >>)
                  /\ Get(clf.full[i], KeyDuration) = JNull
                  /\ Get(clf.full[i], KeyClassification) = JStr(Irrelevant)
            /\ i > Len(clf.full) => clf.pc = "label" /\ i = Len(clf.outcomes)
            /\ clf.pc # "raised"

(***************************************************************************)
(* Properties of Structurer.predict (SpecStructurer).                      *)
(***************************************************************************)
\* C22: in each stage predict makes one LLM call per item, in input order, the
\* call of an item finished before the next item is prompted and never made
\* again; when predict has ended, the calls are as many as the items.
C22_OneCallPerItem ==
    \A c \in {clf, ks} :
        /\ c.calls = Len(c.outcomes)
        /\ c.pc \in {"loop", "infer"} => c.calls = c.idx
        /\ c.pc \in {"label", "store"} => c.calls = c.idx + 1
        /\ c.pc \in {"returned", "raised"} => c.calls = Len(c.dataset)

\* C23: a stage instance writes its base prompt to the log exactly once,
\* however many items predict is given, an empty list included: once predict
\* has returned, the log holds the base prompt once, and never more than once
\* before.
C23_BasePromptLoggedOnce ==
    \A c \in {clf, ks} :
        /\ Count(c.log, "BASE PROMPT") <= 1
        /\ c.pc = "returned" => Count(c.log, "BASE PROMPT") = 1

\* C24: where the LLM call of an item returned text, the record's raw_output is
\* that text and its data is extract_json_from_response of it; its duration is
\* the item's upstream duration plus the duration of the call, and null when the
\* upstream duration is null, the raw output and the data being stored all the
\* same.
C24_AnsweredItemKeepsText ==
    \A i \in 1..Len(ks.results) :
        ks.outcomes[i] = "text" =>
            LET rec == ks.results[i]
                upstream == Get(ks.dataset[i], KeyDuration)
            IN /\ Get(rec, KeyRawOutput).t = "str"
               /\ Get(rec, KeyRawOutput).s \in StructurerOutputs
               /\ Get(rec, KeyData) = extract_json_from_response(Get(rec, KeyRawOutput).s)
               /\ upstream.t = "num" =>
                     /\ Get(rec, KeyDuration).t = "num"
                     /\ \E d \in CallDurations :
                           NumOf(Get(rec, KeyDuration).s) = NumOf(upstream.s) + d
               /\ upstream.t # "num" => Get(rec, KeyDuration) = JNull

C8_ExtractIsIdempotent ==
    (jx.pc = "done" /\ jx.result # NoValidJson) => JsonEq(jx.again, jx.result)

(***************************************************************************)
(* Properties of the Prompter (SpecPrompter, SpecClassifier).              *)
(***************************************************************************)
\* C9: with the zero-shot strategy, a template that lists EXAMPLE and a schema
\* whose EXAMPLE member is not empty, the prompt holds no "Examples:" section.
C9_ZeroShotHasNoExamples ==
    (/\ pr.pc = "built"
     /\ Lower(pr.strategy) = <<"z", "e", "r", "o">>
     /\ \E n \in 1..Len(pr.order) : pr.order[n] = EXAMPLE
     /\ Truthy(Get(pr.schema_json, EXAMPLE)))
        => ~\E i \in 1..Len(pr.prompt) : StartsWithAt(pr.prompt, i, <<"E", "x", "a", "m", "p", "l", "e", "s", ":">>)

\* C10: a few-shot stage whose schema has no non-empty examples array under
\* EXAMPLES, examples, EXAMPLE or example fails in its constructor with
\* ValueError: it holds no prompt, is never ready, and makes no LLM call and
\* no record.
C10_FewShotFailsWithoutExamples ==
    (/\ clf.pc # "idle"
     /\ Lower(clf.prompt_mode) = <<"f", "e", "w">>
     /\ \A key \in ExampleKeys : Get(clf.schema_file, key).kv = << >>)
        => /\ clf.pc \in {"new", "init_raised"}
           /\ clf.pc = "init_raised" => clf.error = "ValueError"
           /\ clf.base_prompt = << >>
           /\ clf.calls = 0
           /\ clf.full = << >>

\* the constructor of such a stage has raised
C10_Witness ==
    /\ clf.pc = "init_raised"
    /\ clf.error = "ValueError"
    /\ Lower(clf.prompt_mode) = <<"f", "e", "w">>
    /\ HasKey(clf.schema_file, Lower(EXAMPLES))
    /\ \A key \in ExampleKeys : Get(clf.schema_file, key).kv = << >>

\* C11: build returns the non-empty rendered sections in template order, joined
\* by one blank line, with no white space at either end; the Scenario E schema
\* under zero-shot with the order PERSONA, TASK, INSTRUCTIONS, SCHEMAS, EXAMPLE
\* gives X, Y, the lines a and b and the indented schema, and no EXAMPLE section.
C11_PromptIsJoinedSections ==
    pr.pc = "built" =>
        /\ pr.prompt = << >> \/ (pr.prompt[1] \notin PyWhitespace
                                 /\ pr.prompt[Len(pr.prompt)] \notin PyWhitespace)
        /\ Lower(pr.strategy) = <<"z", "e", "r", "o">> =>
              pr.prompt = Strip(Join(<<"\n", "\n">>,
                                     Sections(pr.order,
                                              ZeroShot_placeholder_values(pr.schema_json),
                                              pr.schema_json)))
        /\ Lower(pr.strategy) = <<"f", "e", "w">> =>
              pr.prompt = Strip(Join(<<"\n", "\n">>,
                                     Sections(pr.order,
                                              FewShot_placeholder_values(pr.schema_json,
                                                  _select_examples(pr.schema_json)),
                                              pr.schema_json)))
        /\ (pr.schema_json = (JObj(<<[k |-> PERSONA, v |-> JStr(<<"X">>)],
           [k |-> TASK, v |-> JStr(<<"Y">>)],
           [k |-> INSTRUCTIONS, v |-> JArr(<<JStr(<<"a">>), JStr(<<"b">>)>>)],
           [k |-> SCHEMAS, v |-> JObj(<<[k |-> <<"f">>, v |-> JStr(<<"d", "e", "s", "c">>)]>>)]>>)) /\ Lower(pr.strategy) = <<"z", "e", "r", "o">>
                /\ pr.order = WithExample) =>
              pr.prompt = <<"X", "\n", "\n", "Y", "\n", "\n", "a", "\n", "b", "\n", "\n", "S", "c", "h", "e", "m", "a", ":", "\n", "{", "\n", " ", " ", "\"", "f", "\"", ":", " ", "\"", "d", "e", "s", "c", "\"", "\n", "}">>

\* the prompt of Scenario E has been built
C11_Witness ==
    /\ pr.pc = "built"
    /\ pr.schema_json = (JObj(<<[k |-> PERSONA, v |-> JStr(<<"X">>)],
           [k |-> TASK, v |-> JStr(<<"Y">>)],
           [k |-> INSTRUCTIONS, v |-> JArr(<<JStr(<<"a">>), JStr(<<"b">>)>>)],
           [k |-> SCHEMAS, v |-> JObj(<<[k |-> <<"f">>, v |-> JStr(<<"d", "e", "s", "c">>)]>>)]>>))
    /\ pr.strategy = <<"z", "e", "r", "o">>
    /\ pr.order = WithExample
    /\ pr.prompt = <<"X", "\n", "\n", "Y", "\n", "\n", "a", "\n", "b", "\n", "\n", "S", "c", "h", "e", "m", "a", ":", "\n", "{", "\n", " ", " ", "\"", "f", "\"", ":", " ", "\"", "d", "e", "s", "c", "\"", "\n", "}">>

\* C12: under zero-shot and few-shot, a placeholder that is absent or empty in
\* the schema gets no section: no "Schema:" header where the schema has no
\* SCHEMAS member or an empty one, and under zero-shot no "Examples:" header
\* where the schema has no EXAMPLE member or an empty one.
C12_NoEmptyHeaders ==
    (pr.pc = "built" /\ Lower(pr.strategy) \in {<<"z", "e", "r", "o">>, <<"f", "e", "w">>}) =>
        /\ ~Truthy(Get(pr.schema_json, SCHEMAS)) =>
              ~\E i \in 1..Len(pr.prompt) : StartsWithAt(pr.prompt, i, <<"S", "c", "h", "e", "m", "a", ":">>)
        /\ (Lower(pr.strategy) = <<"z", "e", "r", "o">> /\ ~Truthy(Get(pr.schema_json, EXAMPLE))) =>
              ~\E i \in 1..Len(pr.prompt) : StartsWithAt(pr.prompt, i, <<"E", "x", "a", "m", "p", "l", "e", "s", ":">>)

\* C13: the tiers are tried in order and the first that yields a parseable block
\* decides: where fenced candidates are matched but none parses, the brace
\* scan of the text is still made, so an object elsewhere in the text is
\* recovered.
C13_BraceScanAfterFailedFences ==
    (/\ jx.pc = "extracted"
     /\ MarkdownMatches(jx.response_text, 1) # << >>
     /\ MarkdownBlocks(MarkdownMatches(jx.response_text, 1)) = << >>
     /\ BraceBlocks(jx.response_text) # << >>)
        => /\ jx.result # NoValidJson
           /\ Len(BraceBlocks(jx.response_text)) = 1
                 => jx.result = BraceBlocks(jx.response_text)[1]

\* C14: the text of Scenario B, two key: value lines without braces, is wrapped,
\* repaired with the missing comma and parsed to the object of the two pairs.
C14_ImplicitObjectWrap ==
    (jx.pc = "extracted" /\ jx.response_text = <<"k", "e", "y", "1", ":", " ", "\"", "a", "\"", "\n", "k", "e", "y", "2", ":", " ", "\"", "b", "\"">>)
        => JsonEq(jx.result,
                  JObj(<<[k |-> <<"k", "e", "y", "1">>, v |-> JStr(<<"a">>)],
                         [k |-> <<"k", "e", "y", "2">>, v |-> JStr(<<"b">>)]>>))

C16_MergeLastWins ==
    jx.pc = "extracted" =>
        LET blocks == JsonBlocks(jx.response_text) IN
        /\ Len(blocks) = 1 => jx.result = blocks[1]
        /\ (Len(blocks) > 1 /\ \A n \in 1..Len(blocks) : blocks[n].t = "obj") =>
              /\ jx.result.t = "obj"
              /\ \A n \in 1..Len(blocks) : \A m \in 1..Len(blocks[n].kv) :
                    /\ HasKey(jx.result, blocks[n].kv[m].k)
                    /\ (\A later \in (n + 1)..Len(blocks) :
                            ~HasKey(blocks[later], blocks[n].kv[m].k))
                          => Get(jx.result, blocks[n].kv[m].k) = blocks[n].kv[m].v
              /\ \A m \in 1..Len(jx.result.kv) :
                    \E n \in 1..Len(blocks) : HasKey(blocks[n], jx.result.kv[m].k)

\* two blocks that give the key a different values have been merged
C16_Witness ==
    /\ jx.pc = "extracted"
    /\ jx.response_text = <<"{", "\"", "a", "\"", ":", " ", "1", "}", "{", "\"", "a", "\"", ":", " ", "2", ",", " ", "\"", "b", "\"", ":", " ", "3", "}">>
    /\ JsonEq(jx.result, JObj(<<[k |-> <<"a">>, v |-> JNum(<<"2">>)],
                                [k |-> <<"b">>, v |-> JNum(<<"3">>)]>>))

(***************************************************************************)
(* Properties of ExtractorPipeline.run (SpecPipeline).                     *)
(***************************************************************************)
\* C17: once run() has loaded the paragraph file it goes on to construct and run
\* the two stages and ends normally, with classified_full.json,
\* classified_relevant.json, structured.json and the metadata file written.
C17_LoadedRunCompletes ==
    (pipe.pc = "loaded") ~>
        (/\ pipe.pc = "returned"
         /\ {"classified_full.json", "classified_relevant.json", "structured.json",
             "run_metadata.json"} \subseteq pipe.files)

\* C18: without all_paragraphs.json, run() raises the missing-file error with no
\* stage constructed, no LLM call made and none of the result files written.
C18_MissingInputIsFatal ==
    (pipe.pc \notin {"idle", "new"} /\ pipe.ingest = JNull) =>
        /\ pipe.pc = "raised"
        /\ pipe.error = "FileNotFoundError"
        /\ pipe.paragraphs = << >>
        /\ pipe.files = {}
        /\ clf = StageIdle
        /\ ks = StageIdle

\* run() has raised on an ingest directory without the file
C18_Witness ==
    /\ pipe.pc = "raised"
    /\ pipe.ingest = JNull
    /\ pipe.error = "FileNotFoundError"

(***************************************************************************)
(* Properties of the run_pipeline.py script (SpecScript).                  *)
(***************************************************************************)
\* C19: a setup error of the extraction stage (a prompt mode that is not
\* registered, or few-shot extraction with an extraction schema without
\* examples) ends the script before a paragraph is classified and before a
\* classification file is written.
C19_ExtractionSetupErrorLeavesNoState ==
    (/\ script.pc = "raised"
     /\ script.stage = "extraction"
     /\ script.error \in {"RuntimeError", "ValueError"})
        => /\ script.files = << >>
           /\ clf.calls = 0
           /\ clf.full = << >>

\* C20: the example check that guards the classification stage looks at the
\* classification prompt mode and the classification schema only: it raises
\* only for few-shot classification, and with classification mode zero and
\* extraction mode few a classification schema without examples does not stop
\* the script when the extraction schema has examples.
C20_ModesAreIndependent ==
    LET has(schema) == \E k \in EXAMPLE_KEYS :
                          HasKey(schema.json, k) /\ Truthy(Get(schema.json, k))
        stopped == /\ script.pc = "raised"
                   /\ script.stage = "classification"
                   /\ script.error = "RuntimeError"
    IN /\ stopped => script.config.prompt_mode_classification = <<"f", "e", "w">>
       /\ (/\ script.config.prompt_mode_classification = <<"z", "e", "r", "o">>
           /\ script.config.prompt_mode_extraction = <<"f", "e", "w">>
           /\ ~script.classification_schema.path
           /\ ~has(script.classification_schema)
           /\ has(script.extraction_schema)) => ~stopped

C26_ObjectAfterStrayBraceIsRecovered ==
    \A tok \in ResponseTokens :
        (/\ jx.pc \in {"extracted", "done"}
         /\ jx.response_text = <<"}">> \o tok
         /\ MarkdownMatches(jx.response_text, 1) = << >>
         /\ Loads(tok).ok
         /\ Loads(tok).v.t = "obj")
            => jx.result = Loads(tok).v

\* C27: neither predict changes its input.  The list the script passed to
\* Classifier.predict is the list the classifier still holds, item for item;
\* once the extraction stage is at work the list it was given is still the
\* relevant list, the records of all_results and relevant_results are as the
\* classifier returned them, and each Extraction Record is a dict of its own
\* (it has the member data, which its input record has not).
C27_PredictLeavesInputUnchanged ==
    /\ clf.pc # "idle" => clf.dataset = script.paragraphs
    /\ ks.pc # "idle" =>
          /\ ks.dataset = script.relevant_only
          /\ clf.full = script.pred_all
          /\ clf.relevant = script.relevant_only
          /\ clf.dataset = script.paragraphs
          /\ \A n \in 1..Len(ks.results) :
                /\ HasKey(ks.results[n], KeyData)
                /\ ~HasKey(ks.dataset[n], KeyData)
          /\ \A m \in 1..Len(script.pred_all) : ~HasKey(script.pred_all[m], KeyData)

\* the extraction stage has returned a record for a relevant record
C27_Witness ==
    /\ ks.pc = "returned"
    /\ Len(ks.results) >= 1
    /\ ks.dataset = script.relevant_only
    /\ HasKey(ks.results[1], KeyData)
    /\ clf.full = script.pred_all

C29_RelevantRecordsCameFromAnswers ==
    /\ \A n \in 1..Len(clf.relevant) :
          /\ Get(clf.relevant[n], KeyClassification) = JStr(Relevant)
          /\ Get(clf.relevant[n], KeyRawOutput).s # << >>
          /\ Get(clf.relevant[n], KeyDuration).t = "num"
    /\ \A n \in 1..Len(clf.full) :
          clf.outcomes[n] = "raise" =>
              /\ Get(clf.full[n], KeyClassification) = JStr(Irrelevant)
              /\ Get(clf.full[n], KeyDuration) = JNull
    /\ \A n \in 1..Len(ks.dataset) : Get(ks.dataset[n], KeyDuration).t = "num"
    /\ \A n \in 1..Len(ks.results) :
          ks.outcomes[n] = "text" =>
              /\ Get(ks.results[n], KeyRawOutput).s \in StructurerOutputs
              /\ \E d \in CallDurations :
                    Get(ks.results[n], KeyDuration)
                        = JNum(DigitsOf(d + NumOf(Get(ks.dataset[n], KeyDuration).s)))

\* the extraction stage has added its second to the second classification took
C29_Witness ==
    /\ Len(clf.relevant) >= 1
    /\ Len(ks.results) >= 1
    /\ ks.outcomes[1] = "text"
    /\ Get(ks.dataset[1], KeyDuration) = JNum(<<"1">>)
    /\ Get(ks.results[1], KeyDuration) = JNum(<<"2">>)

(***************************************************************************)
(* Properties of Chunker._fixed (SpecChunker).                             *)
(***************************************************************************)
\* C30: fixed-size chunking ends for every text, size >= 1 and overlap >= 0,
\* also where the overlap is not smaller than the size: the loop has made as
\* many chunks as it has taken steps of max(1, size - overlap), never more than
\* there are words, and the call returns.  The k-th chunk (from 0) is the words
\* from index k*step on, joined by one space, between 1 and size of them; the
\* chunks are in text order and every word is in one of them; a text without
\* words gives the empty list.
C30_FixedChunkingCoversText ==
    /\ [](chunker.strategy \in {"fixed", "sections"} =>
            LET words == PySplit(chunker.text)
                n == Len(words)
                size == chunker.size
                step == IF size - chunker.overlap >= 1 THEN size - chunker.overlap ELSE 1
                chunks == chunker.chunks
            IN /\ chunker.pc # "raised"
               /\ Len(chunks) <= n
               /\ chunker.pc = "loop" => chunker.i = Len(chunks) * step
               /\ \A k \in 1..Len(chunks) :
                     /\ (k - 1) * step < n
                     /\ chunks[k] = Join(<<" ">>,
                                         SubSeq(words, (k - 1) * step + 1,
                                                Min({(k - 1) * step + size, n})))
                     /\ Len(PySplit(chunks[k])) \in 1..size
               /\ chunker.pc = "returned" =>
                     /\ Len(chunks) * step >= n
                     /\ \A j \in 1..n :
                           \E k \in 1..Len(chunks) :
                               (k - 1) * step + 1 <= j /\ j <= (k - 1) * step + size
                     /\ n = 0 => chunks = << >>)
    /\ (chunker.pc = "new" /\ chunker.strategy \in {"fixed", "sections"})
          ~> (chunker.pc = "returned")

\* a text of three words was split with an overlap as large as the size, so
\* that the step is 1 and each word begins a chunk
C30_Witness ==
    /\ chunker.pc = "returned"
    /\ chunker.strategy = "fixed"
    /\ chunker.size = 2
    /\ chunker.overlap >= 2
    /\ chunker.text = <<"a", " ", "\n", "b", "c", " ", "\n", "a">>
    /\ chunker.chunks = <<<<"a", " ", "b", "c">>, <<"b", "c", " ", "a">>, <<"a">>>>

====
